---- MODULE Spec2Model ----
(***************************************************************************)
(* A model of the dependency-graph execution core of fantoch:              *)
(*   - the Atlas dependency-graph queue (protocol/atlas/queue/mod.rs),     *)
(*     checked under SpecQueue;                                            *)
(*   - the sharded graph executor (fantoch_ps executor/graph), checked     *)
(*     under SpecGraph;                                                    *)
(*   - the key-value storage engine (fantoch store.rs), checked under      *)
(*     SpecStore;                                                          *)
(*   - the MRV dependency tracker (fantoch_ps deps/keys/mrvs.rs), checked  *)
(*     under SpecKeyDeps, and the execution of the commands it orders by   *)
(*     two stores, checked under SpecOrder;                                *)
(*   - Command and CommandResultBuilder (fantoch command.rs), checked      *)
(*     under SpecCommand and SpecResult;                                   *)
(*   - the client Workload (fantoch client/workload.rs), checked under     *)
(*     SpecWorkload;                                                       *)
(*   - a tracker and its stores created with the same number of            *)
(*     sub-records, checked under SpecIndex, and Storage::execute of       *)
(*     several ops, checked under SpecExecute;                             *)
(*   - the results taken from a graph executor with to_clients(), checked  *)
(*     under SpecClients;                                                  *)
(*   - SequentialKeyClocks (protocol/common/graph/clocks/keys), checked    *)
(*     under SpecClocks;                                                   *)
(*   - BasicExecutor (executor/basic.rs), checked under SpecBasic.         *)
(***************************************************************************)
EXTENDS Integers, Sequences, FiniteSets, TLC

\* number of processes of the queue (Queue::new(n))
N == 2
\* number of dots that exist in a run
MaxDots == 3

VARIABLES
    \* ---- Queue (protocol/atlas/queue/mod.rs)
    executed_clock,   \* set of executed dots (AEClock<ProcessId>)
    vertex_index,     \* dot -> vertex [clock, keys]
    pending_index,    \* key -> set of dots of indexed commands on that key
    to_execute,       \* commands (named by their dot) ready to be executed
    failed,           \* TRUE once an assert!/expect of the queue has failed
    \* ---- the caller of the queue (tests::check_termination)
    cmds,             \* dot -> [clock, keys] of every command added so far
    sorted,           \* commands taken with Queue::to_execute(), in order
    \* ---- GraphExecutor (fantoch_ps executor/graph/executor.rs), one per shard
    config,           \* Config: [execute_at_commit, shards]
    executors,        \* shard -> the fields of its GraphExecutor
    \* ---- the protocol and the runtime around the executors
    committed,        \* dot -> [cmd, deps] of every command committed so far
    to_add,           \* <<shard, dot>>: Add infos not yet handed to the executor
    network,          \* [to, info]: the infos taken with to_executors()
    \* ---- Storage (fantoch store.rs) and its caller
    storage,          \* Storage: [store, is_kv_storage, number]
    overflow_checks,  \* TRUE when the build panics on arithmetic overflow
    panicked,         \* TRUE once a call has panicked
    last,             \* the last call of Storage::execute, as a sequence of
                      \* at most one [key, ops, n_deps, results, before, panic]
    n_deps_pending,   \* a list of get_n_deps_by_cmd not yet used, as a
                      \* sequence of at most one [key, op, n_deps]
    n_executed,       \* number of calls of Storage::execute so far
    \* ---- MultiRecordValues (fantoch_ps deps/keys/mrvs.rs) and its caller
    key_deps,         \* MultiRecordValues: [shard_id, nfr, n_mrv, latest, latest_noop]
    added,            \* the calls of add_cmd and add_noop that returned, in
                      \* order: [dot, cmd, deps, keys_deps]
    replica,          \* a second Storage, executing the added commands
    replica_done,     \* the calls the second Storage has executed, in order
    attempt,          \* the last call of add_cmd or add_noop, as a sequence of
                      \* at most one [dot, cmd, before, panic, assert_failed,
                      \* past, keys_deps, rand, deps, returned]
    \* ---- Command and CommandResultBuilder (fantoch command.rs), their caller
    command,          \* a Command: [shard_to_ops, shard_to_keys]
    merges,           \* the command as it was built, then the commands merged
                      \* into it, in order
    asked,            \* the last call of Command::conflicts, as a sequence of
                      \* at most one [a, b, conflicts]
    builder,          \* CommandResultBuilder: [rifl, key_count, results]
    cmd_result,       \* the CommandResult made from the builder, as an Option
    \* ---- Workload (fantoch client/workload.rs) and its caller
    workload,         \* Workload: its fields
    calls,            \* what each call of Workload::next_cmd returned, in order
    \* ---- the caller of GraphExecutor::to_clients
    delivered,        \* shard -> what the calls of to_clients() returned, in order
    \* ---- SequentialKeyClocks (protocol/common/graph/clocks/keys/sequential.rs)
    key_clocks,       \* SequentialKeyClocks: [n, clocks, noop_clock]
    clocked,          \* the calls of KeyClocks::add, in order: [dot, cmd, clock]
    \* ---- BasicExecutor (executor/basic.rs) and its caller
    basic,            \* BasicExecutor: [store, pending]
    served            \* per rifl, how often it was registered and answered,
                      \* and the last call of handle

qvars == <<executed_clock, vertex_index, pending_index, to_execute, failed,
           cmds, sorted>>

gvars == <<config, executors, committed, to_add, network>>

svars == <<storage, overflow_checks, panicked, last, n_deps_pending, n_executed>>

kvars == <<key_deps, added, replica, replica_done, attempt>>

cvars == <<command, merges, asked, builder, cmd_result, workload, calls>>

evars == <<delivered, key_clocks, clocked, basic, served>>

vars == <<qvars, gvars, svars, kvars, cvars, evars>>

----------------------------------------------------------------------------
\* Identifiers

Procs == 1..N

\* the i-th dot of the run: dots are spread over the processes round-robin
DotOf(i) == <<((i - 1) % N) + 1, ((i - 1) \div N) + 1>>

Dots == {DotOf(i) : i \in 1..MaxDots}

Source(dot) == dot[1]

Sequence(dot) == dot[2]

\* derived Ord of Dot: by source, then by sequence
DotLt(a, b) == Source(a) < Source(b) \/ (Source(a) = Source(b) /\ Sequence(a) < Sequence(b))

Keys == {"A", "B"}

\* Ord of Key (String)
KeyLt(a, b) == a = "A" /\ b = "B"

\* highest sequence of a process among the dots of the run
MaxSeqOf(p) == Cardinality({d \in Dots : Source(d) = p})

\* the clocks a command can be committed with
Clocks == {c \in [Procs -> 0..MaxDots] : \A p \in Procs : c[p] <= MaxSeqOf(p)}

Min(a, b) == IF a <= b THEN a ELSE b

\* a set of dots as the sequence an ordered iteration yields
\* (ascending, or descending when rev)
RECURSIVE DotSeq(_, _)
DotSeq(S, rev) ==
    IF S = {} THEN <<>>
    ELSE LET m == CHOOSE x \in S : \A y \in S :
                      x = y \/ (IF rev THEN DotLt(y, x) ELSE DotLt(x, y))
         IN <<m>> \o DotSeq(S \ {m}, rev)

\* the dots a clock names: every event of every process up to the clock's entry
ClockDots(clock) == {d \in Procs \X (1..MaxDots) : Sequence(d) <= clock[Source(d)]}

----------------------------------------------------------------------------
\* Tarjan's SCC finder

NewFinder ==
    [id |-> 0, ids |-> [d \in Dots |-> 0], low |-> [d \in Dots |-> 0],
     stack |-> <<>>, sccs |-> <<>>, result |-> "NotFound"]

OnStack(f, dot) == \E i \in 1..Len(f.stack) : f.stack[i] = dot

\* the dependencies visited for a vertex: the dots of its clock that are not
\* executed, itself excluded
VertexDeps(dot, clock, executed) == (ClockDots(clock) \ executed) \ {dot}

\* an SCC is an ordered set of dots (BTreeSet<Dot>)
NewSCC(members) == DotSeq(members, FALSE)

\* pops the members of the SCC rooted at dot from the stack
PopSCC(f, dot) ==
    LET i == CHOOSE k \in 1..Len(f.stack) : f.stack[k] = dot
        members == {f.stack[k] : k \in i..Len(f.stack)}
    IN [f EXCEPT !.stack = SubSeq(@, 1, i - 1),
                 !.sccs = Append(@, NewSCC(members)),
                 !.result = "Found"]

RECURSIVE strong_connect(_, _, _, _, _)
RECURSIVE visit_deps(_, _, _, _, _, _)

strong_connect(f, dot, executed, vindex, rev) ==
    LET id == f.id + 1
        f1 == [f EXCEPT !.id = id, !.ids[dot] = id, !.low[dot] = id,
                        !.stack = Append(@, dot), !.result = "NotFound"]
        deps == DotSeq(VertexDeps(dot, vindex[dot].clock, executed), rev)
        f2 == visit_deps(f1, dot, deps, executed, vindex, rev)
    IN IF f2.result = "MissingDependency" THEN f2
       ELSE IF f2.low[dot] = f2.ids[dot] THEN PopSCC(f2, dot)
       ELSE [f2 EXCEPT !.result = "NotFound"]

visit_deps(f, dot, deps, executed, vindex, rev) ==
    IF deps = <<>> THEN f
    ELSE LET dep == Head(deps) IN
         IF dep \notin DOMAIN vindex
         THEN [f EXCEPT !.result = "MissingDependency"]
         ELSE IF f.ids[dep] = 0
         THEN LET g == strong_connect(f, dep, executed, vindex, rev) IN
              IF g.result = "MissingDependency" THEN g
              ELSE visit_deps([g EXCEPT !.low[dot] = Min(@, g.low[dep])],
                              dot, Tail(deps), executed, vindex, rev)
         ELSE IF OnStack(f, dep)
         THEN visit_deps([f EXCEPT !.low[dot] = Min(@, f.ids[dep])],
                         dot, Tail(deps), executed, vindex, rev)
         ELSE visit_deps(f, dot, Tail(deps), executed, vindex, rev)

----------------------------------------------------------------------------
\* The vertex index and the pending index of the queue

\* VertexIndex::index: FALSE when the dot was already indexed
VertexIndexIndex(vindex, dot, vertex) ==
    [ok |-> dot \notin DOMAIN vindex,
     index |-> [d \in DOMAIN vindex \cup {dot} |-> IF d = dot THEN vertex ELSE vindex[d]]]

VertexIndexRemove(vindex, dot) == [d \in DOMAIN vindex \ {dot} |-> vindex[d]]

\* PendingIndex::index: the vertex's dot is indexed under each key of its command
PendingIndexVertex(pindex, dot, vertex) ==
    [k \in DOMAIN pindex \cup vertex.keys |->
        IF k \in vertex.keys
        THEN (IF k \in DOMAIN pindex THEN pindex[k] ELSE {}) \cup {dot}
        ELSE pindex[k]]

\* PendingIndex::remove
PendingIndexRemoveVertex(pindex, dot, vertex) ==
    [k \in DOMAIN pindex |-> IF k \in vertex.keys THEN pindex[k] \ {dot} ELSE pindex[k]]

----------------------------------------------------------------------------
\* The queue. A queue value q is the record of the fields of Queue, with
\* failed set once an assertion of the queue has failed.

\* a heap of keys: key -> number of occurrences
EmptyHeap == [k \in Keys |-> 0]

HeapExtend(h, ks) == [k \in Keys |-> h[k] + (IF k \in ks THEN 1 ELSE 0)]

HeapMerge(h, g) == [k \in Keys |-> h[k] + g[k]]

HeapIsEmpty(h) == \A k \in Keys : h[k] = 0

\* BinaryHeap::pop yields the greatest key
HeapPeek(h) == CHOOSE k \in Keys : h[k] > 0 /\ \A j \in Keys : h[j] > 0 => (j = k \/ KeyLt(j, k))

HeapPop(h) == [h EXCEPT ![HeapPeek(h)] = @ - 1]

QueueNew ==
    [executed_clock |-> {}, vertex_index |-> <<>>, pending_index |-> <<>>,
     to_execute |-> <<>>, failed |-> FALSE]

\* SaveDot pushing the command at the front of to_execute
SaveDotFront(r, dot) ==
    LET q == r.q IN
    IF q.failed THEN r
    ELSE IF dot \in q.executed_clock \/ dot \notin DOMAIN q.vertex_index
    THEN [r EXCEPT !.q.failed = TRUE]
    ELSE LET vertex == q.vertex_index[dot] IN
         [q |-> [q EXCEPT !.executed_clock = @ \cup {dot},
                          !.vertex_index = VertexIndexRemove(@, dot),
                          !.pending_index = PendingIndexRemoveVertex(@, dot, vertex),
                          !.to_execute = <<dot>> \o @],
          keys |-> HeapExtend(r.keys, vertex.keys)]

\* SaveDot leaving the vertex in the vertex index and in the pending index
SaveDotNoRemove(r, dot) ==
    LET q == r.q IN
    IF q.failed THEN r
    ELSE IF dot \in q.executed_clock \/ dot \notin DOMAIN q.vertex_index
    THEN [r EXCEPT !.q.failed = TRUE]
    ELSE LET vertex == q.vertex_index[dot] IN
         [q |-> [q EXCEPT !.executed_clock = @ \cup {dot},
                          !.to_execute = Append(@, dot)],
          keys |-> HeapExtend(r.keys, vertex.keys)]

\* Queue::save_scc for one dot of the SCC
SaveDot(r, dot) ==
    LET q == r.q IN
    IF q.failed THEN r
    ELSE IF dot \in q.executed_clock \/ dot \notin DOMAIN q.vertex_index
    THEN [r EXCEPT !.q.failed = TRUE]
    ELSE LET vertex == q.vertex_index[dot] IN
         [q |-> [q EXCEPT !.executed_clock = @ \cup {dot},
                          !.vertex_index = VertexIndexRemove(@, dot),
                          !.pending_index = PendingIndexRemoveVertex(@, dot, vertex),
                          !.to_execute = Append(@, dot)],
          keys |-> HeapExtend(r.keys, vertex.keys)]

RECURSIVE save_scc(_, _)
save_scc(r, scc) ==
    IF scc = <<>> THEN r ELSE save_scc(SaveDot(r, Head(scc)), Tail(scc))

RECURSIVE SaveSccs(_, _)
SaveSccs(r, sccs) ==
    IF sccs = <<>> THEN r ELSE SaveSccs(save_scc(r, Head(sccs)), Tail(sccs))

\* find_scc saving the start vertex whatever the finder's result
find_scc_unchecked(q, dot, rev) ==
    LET finder == strong_connect(NewFinder, dot, q.executed_clock, q.vertex_index, rev)
        r0 == [q |-> q, keys |-> EmptyHeap]
    IN IF finder.result = "Found" THEN SaveSccs(r0, finder.sccs) ELSE save_scc(r0, <<dot>>)

\* Queue::find_scc: the queue after it, and the keys of the commands released
find_scc(q, dot, rev) ==
    LET finder == strong_connect(NewFinder, dot, q.executed_clock, q.vertex_index, rev)
        r0 == [q |-> q, keys |-> EmptyHeap]
    IN IF finder.result = "Found" THEN SaveSccs(r0, finder.sccs) ELSE r0

RECURSIVE try_pending(_, _, _)
RECURSIVE TryDots(_, _, _, _)

\* Queue::try_pending
try_pending(q, keys, rev) ==
    IF q.failed \/ HeapIsEmpty(keys) THEN q
    ELSE LET key == HeapPeek(keys)
             rest == HeapPop(keys)
         IN IF key \notin DOMAIN q.pending_index
            THEN [q EXCEPT !.failed = TRUE]
            ELSE TryDots(q, DotSeq(q.pending_index[key], rev), rest, rev)

\* the loop of try_pending over the pending dots of one key
TryDots(q, pending, keys, rev) ==
    IF pending = <<>> THEN try_pending(q, keys, rev)
    ELSE LET r == find_scc(q, Head(pending), rev) IN
         IF ~HeapIsEmpty(r.keys) \/ r.q.failed
         THEN try_pending(r.q, HeapMerge(keys, r.keys), rev)
         ELSE TryDots(r.q, Tail(pending), keys, rev)

\* Queue::index without its assertion: the vertex is indexed again
QueueIndexNoAssert(q, dot, vertex) ==
    [q EXCEPT !.pending_index = PendingIndexVertex(q.pending_index, dot, vertex),
              !.vertex_index = VertexIndexIndex(q.vertex_index, dot, vertex).index]

\* Queue::index
QueueIndex(q, dot, vertex) ==
    LET pindex == PendingIndexVertex(q.pending_index, dot, vertex)
        vi == VertexIndexIndex(q.vertex_index, dot, vertex)
    IN IF vi.ok
       THEN [q EXCEPT !.pending_index = pindex, !.vertex_index = vi.index]
       ELSE [q EXCEPT !.pending_index = pindex, !.failed = TRUE]

\* Queue::add
QueueAdd(q, dot, vertex, rev) ==
    LET q1 == QueueIndex(q, dot, vertex) IN
    IF q1.failed THEN q1
    ELSE LET r == find_scc(q1, dot, rev) IN try_pending(r.q, r.keys, rev)

----------------------------------------------------------------------------
\* The queue as a state machine

TheQueue ==
    [executed_clock |-> executed_clock, vertex_index |-> vertex_index,
     pending_index |-> pending_index, to_execute |-> to_execute, failed |-> failed]

SetQueue(q) ==
    /\ executed_clock' = q.executed_clock
    /\ vertex_index' = q.vertex_index
    /\ pending_index' = q.pending_index
    /\ to_execute' = q.to_execute
    /\ failed' = q.failed

\* no Storage is constructed
NoStorage ==
    /\ storage = <<>>
    /\ overflow_checks = FALSE
    /\ panicked = FALSE
    /\ last = <<>>
    /\ n_deps_pending = <<>>
    /\ n_executed = 0

\* no MultiRecordValues is constructed
NoKeyDeps ==
    /\ key_deps = <<>>
    /\ added = <<>>
    /\ replica = <<>>
    /\ replica_done = <<>>
    /\ attempt = <<>>

\* no Command, no CommandResultBuilder and no Workload is constructed
NoClient ==
    /\ command = <<>>
    /\ merges = <<>>
    /\ asked = <<>>
    /\ builder = <<>>
    /\ cmd_result = <<>>
    /\ workload = <<>>
    /\ calls = <<>>

\* no result is taken from a GraphExecutor, and no SequentialKeyClocks and no
\* BasicExecutor is constructed
NoRuntime ==
    /\ delivered = <<>>
    /\ key_clocks = <<>>
    /\ clocked = <<>>
    /\ basic = <<>>
    /\ served = <<>>

InitQueue ==
    /\ executed_clock = QueueNew.executed_clock
    /\ vertex_index = QueueNew.vertex_index
    /\ pending_index = QueueNew.pending_index
    /\ to_execute = QueueNew.to_execute
    /\ failed = QueueNew.failed
    /\ cmds = <<>>
    /\ sorted = <<>>
    \* no graph executor is constructed
    /\ config = [execute_at_commit |-> FALSE, shards |-> 1]
    /\ executors = <<>>
    /\ committed = <<>>
    /\ to_add = {}
    /\ network = {}
    /\ NoStorage
    /\ NoKeyDeps
    /\ NoClient
    /\ NoRuntime

\* Queue::to_execute, called on a queue value: the commands taken and the
\* queue left
QueueToExecute(q) == [ready |-> q.to_execute, q |-> [q EXCEPT !.to_execute = <<>>]]

\* a failed assert!/expect panics: the thread unwinds, and the queue and the
\* caller's locals are dropped
Panic ==
    /\ SetQueue([QueueNew EXCEPT !.failed = TRUE])
    /\ cmds' = <<>>
    /\ sorted' = <<>>

\* one iteration of the caller's loop (tests::check_termination): queue.add,
\* then queue.to_execute() appended to the total order
AddStep(dot, vertex, rev) ==
    /\ UNCHANGED <<gvars, svars, kvars, cvars, evars>>
    /\ \E q1 \in {QueueAdd(TheQueue, dot, vertex, rev)} :
       LET t == QueueToExecute(q1)
       IN IF q1.failed
          THEN Panic
          ELSE /\ SetQueue(t.q)
               /\ sorted' = sorted \o t.ready
               /\ cmds' = [d \in DOMAIN cmds \cup {dot} |-> IF d = dot THEN vertex ELSE cmds[d]]

\* queue.add(dot, cmd, clock) for a dot not added before; the highest event
\* the clock names for the source of the dot is another command, as a clock
\* is computed before its command is added to the clocks of its keys
Add(dot, clock, keys, rev) ==
    /\ ~failed
    /\ dot \notin DOMAIN cmds
    /\ clock[Source(dot)] # Sequence(dot)
    /\ AddStep(dot, [clock |-> clock, keys |-> keys], rev)

\* queue.add(dot, cmd, clock) again, for a dot and command added before
AddAgain(dot) ==
    /\ ~failed
    /\ dot \in DOMAIN cmds
    /\ AddStep(dot, cmds[dot], FALSE)

NextQueue ==
    \E dot \in Dots, clock \in Clocks, keys \in (SUBSET Keys) \ {{}}, rev \in BOOLEAN :
        Add(dot, clock, keys, rev)

\* the caller adds each dot once (check_termination asserts all_rifls.insert)
SpecQueue == InitQueue /\ [][NextQueue]_vars

NextQueueDup ==
    \/ NextQueue
    \/ \E dot \in Dots : AddAgain(dot)

\* a caller that may add a dot again
SpecQueueDup == InitQueue /\ [][NextQueueDup]_vars

----------------------------------------------------------------------------
\* The dependency graph of the commands added so far

Added == DOMAIN cmds

Released == {sorted[i] : i \in 1..Len(sorted)}

Pos(d) == CHOOSE i \in 1..Len(sorted) : sorted[i] = d

DepsOf(d) == ClockDots(cmds[d].clock) \ {d}

RECURSIVE Closure(_)
Closure(S) ==
    LET T == S \cup UNION {DepsOf(d) : d \in S \cap Added}
    IN IF T = S THEN S ELSE Closure(T)

Reaches(a, b) == b \in Closure({a})

SameSCC(a, b) == Reaches(a, b) /\ Reaches(b, a)

\* every dependency of every command added is itself added
DependencyClosed == \A a \in Added : DepsOf(a) \subseteq Added

\* every two commands are related by a dependency in at least one direction
PairwiseRelated ==
    \A a, b \in Added : a # b => (b \in DepsOf(a) \/ a \in DepsOf(b))

\* the clocks are clocks that per-key clocks produce (SequentialKeyClocks):
\* the highest event a clock names for a process is a command on a key of
\* the command
FromKeyClocks ==
    \A a \in Added : \A p \in Procs :
        LET m == <<p, cmds[a].clock[p]>> IN
        (m \in Added /\ m # a) => cmds[m].keys \cap cmds[a].keys # {}

\* the total order tests::shuffle_it compares with: the commands added to a
\* fresh queue in one fixed order of arrival
RECURSIVE ReferenceRun(_, _, _)
ReferenceRun(q, order, done) ==
    IF order = <<>> \/ q.failed THEN done
    ELSE LET q1 == QueueAdd(q, Head(order), cmds[Head(order)], FALSE)
             t == QueueToExecute(q1)
         IN ReferenceRun(t.q, Tail(order), done \o t.ready)

total_order == ReferenceRun(QueueNew, DotSeq(Added, FALSE), <<>>)

----------------------------------------------------------------------------
\* Claims on the queue

\* C1: the release order is a topological order of the dependency graph with
\* its SCCs contracted: a dependency outside the SCC of a released command is
\* released before it, and the members of an SCC are released together,
\* contiguously and in ascending Dot order.
C1_ReleaseOrderTopological ==
    \A a \in Released :
        /\ \A b \in DepsOf(a) :
              ~SameSCC(a, b) => (b \in Released /\ Pos(b) < Pos(a))
        /\ \A b \in Added : SameSCC(a, b) => b \in Released
        /\ \A b \in Released :
              (SameSCC(a, b) /\ DotLt(a, b)) =>
                  /\ Pos(a) < Pos(b)
                  /\ \A i \in Pos(a)..Pos(b) : SameSCC(a, sorted[i])

\* an SCC of two commands was released after a command it depends on
C1_Witness ==
    \E a, b, c \in Released :
        /\ a # b /\ SameSCC(a, b)
        /\ ~SameSCC(a, c) /\ c \in DepsOf(a)

\* C2: a dependency-closed set of pairwise related commands is released in
\* the same total order whatever the order in which it is added.
C2_SameOrderForEveryPermutation ==
    (DependencyClosed /\ PairwiseRelated /\ FromKeyClocks /\ ~failed) =>
        sorted = total_order

\* C3: a released command has each dependency released before it or in its
\* own SCC; a command with a dependency never added is not released and
\* stays in the vertex index.
C3_ReleasedOnlyAfterDeps ==
    /\ \A a \in Released : \A b \in DepsOf(a) :
          b \in Released /\ (Pos(b) < Pos(a) \/ SameSCC(a, b))
    /\ \A a \in Added :
          (\E b \in DepsOf(a) : b \notin Added /\ b \notin executed_clock) =>
              (a \notin Released /\ a \in DOMAIN vertex_index)

\* a command one dependency of which was released is kept waiting by a
\* dependency never added
C3_Witness ==
    \E a \in DOMAIN vertex_index :
        /\ \E b \in DepsOf(a) : b \in Released
        /\ \E b \in DepsOf(a) : b \notin Added

\* C4: once a dependency-closed set of commands has been added, all of it has
\* been released and both indexes are empty.
C4_ClosedSetReleased ==
    (DependencyClosed /\ FromKeyClocks /\ ~failed) =>
        /\ Released = Added
        /\ DOMAIN vertex_index = {}
        /\ \A k \in DOMAIN pending_index : pending_index[k] = {}

\* C5: no dot is released twice: no assertion of the queue fails, a released
\* dot is in the executed clock and no longer in the vertex index.
C5_ReleasedOnce ==
    /\ ~failed
    /\ \A i, j \in 1..Len(sorted) : sorted[i] = sorted[j] => i = j
    /\ executed_clock = Released
    /\ Released \cap DOMAIN vertex_index = {}
    /\ \A k \in DOMAIN pending_index : pending_index[k] \cap Released = {}

\* commands released by the add of a later command on their key
C5_Witness ==
    /\ Len(sorted) = MaxDots
    /\ \E a, b \in Released : a # b /\ cmds[a].keys = cmds[b].keys /\ a \in DepsOf(b)

SCCOf(a) == {b \in Added : SameSCC(a, b)}

\* C30: after every add the queue is at a fixpoint: no vertex left in the
\* vertex index belongs to an SCC all of whose dependencies are executed or
\* inside the SCC
C30_FixpointAfterAdd ==
    (FromKeyClocks /\ ~failed) =>
        \A a \in DOMAIN vertex_index :
            ~(\A m \in SCCOf(a) : DepsOf(m) \subseteq SCCOf(a) \cup executed_clock)

----------------------------------------------------------------------------
\* The sharded graph executor (fantoch_ps executor/graph)

Shards == {0, 1}

\* Dot::target_shard(n)
TargetShard(dot, n) == Source(dot) % n

\* a command, named by its dot; shards are the keys of its shard_to_ops
NewCommand(dot, shards) == [dot |-> dot, shards |-> shards]

\* Command::replicated_by
ReplicatedBy(cmd, shard_id) == shard_id \in cmd.shards

\* Vertex::new
NewVertex(cmd, deps) == [cmd |-> cmd, deps |-> deps]

\* VertexIndex::index of the graph executor: the index after it, and the
\* vertex indexed before under the dot (an Option, as a sequence)
GraphVertexIndexIndex(local, vertex) ==
    LET dot == vertex.cmd.dot IN
    [local |-> [d \in DOMAIN local \cup {dot} |-> IF d = dot THEN vertex ELSE local[d]],
     previous |-> IF dot \in DOMAIN local THEN <<local[dot]>> ELSE <<>>]

\* VertexIndex::find
GraphVertexIndexFind(local, dot) == IF dot \in DOMAIN local THEN <<local[dot]>> ELSE <<>>

\* VertexIndex::remove of the graph executor
GraphVertexIndexRemove(local, dot) == [d \in DOMAIN local \ {dot} |-> local[d]]

\* PendingIndex::new
PendingIndexNew(shard_id, n) ==
    [shard_id |-> shard_id, n |-> n, index |-> <<>>, mine |-> {}, failed |-> FALSE]

\* PendingIndex::add_mine
add_mine(pi, dot) == [pi EXCEPT !.mine = @ \cup {dot}, !.failed = @ \/ dot \in pi.mine]

\* PendingIndex::is_mine
is_mine(pi, dot) == dot \in pi.mine

\* PendingIndex::index asking the target shard for every waiter recorded
PendingIndexIndexAlways(pi, dep_dot, dot) ==
    LET target == TargetShard(dep_dot, pi.n) IN
    [pi |-> [pi EXCEPT !.index =
                [d \in DOMAIN pi.index \cup {dep_dot} |->
                    IF d = dep_dot
                    THEN (IF d \in DOMAIN pi.index THEN pi.index[d] ELSE {}) \cup {dot}
                    ELSE pi.index[d]]],
     request |-> IF target # pi.shard_id /\ dep_dot \notin pi.mine THEN <<target>> ELSE <<>>]

\* PendingIndex::index: the index after it, and the shard to ask (an Option,
\* as a sequence)
PendingIndexIndex(pi, dep_dot, dot) ==
    IF dep_dot \notin DOMAIN pi.index
    THEN LET target == TargetShard(dep_dot, pi.n) IN
         [pi |-> [pi EXCEPT !.index =
                    [d \in DOMAIN pi.index \cup {dep_dot} |->
                        IF d = dep_dot THEN {dot} ELSE pi.index[d]]],
          request |-> IF target # pi.shard_id /\ dep_dot \notin pi.mine
                      THEN <<target>> ELSE <<>>]
    ELSE [pi |-> [pi EXCEPT !.index[dep_dot] = @ \cup {dot}],
          request |-> <<>>]

\* PendingIndex::remove: the index after it, and the dots that waited (an
\* Option, as a sequence)
PendingIndexRemove(pi, dep_dot) ==
    [pi |-> [pi EXCEPT !.mine = @ \ {dep_dot},
                       !.index = [d \in DOMAIN pi.index \ {dep_dot} |-> pi.index[d]]],
     dots |-> IF dep_dot \in DOMAIN pi.index THEN <<pi.index[dep_dot]>> ELSE <<>>]

----------------------------------------------------------------------------
\* DependencyGraph (executor/graph/mod.rs), as section 4.3 of the
\* specification describes it

\* DependencyGraph::new
DependencyGraphNew(shard_id, cfg) ==
    [shard_id |-> shard_id,
     vertex_index |-> <<>>,
     pending_index |-> PendingIndexNew(shard_id, cfg.shards),
     executed_clock |-> {},
     to_execute |-> <<>>,
     added |-> {},
     out_requests |-> [s \in Shards |-> {}],
     out_request_replies |-> [s \in Shards |-> <<>>],
     buffered_in_requests |-> [s \in Shards |-> {}]]

\* RequestReply::Info
ReplyInfo(vertex) ==
    [type |-> "Info", dot |-> vertex.cmd.dot, cmd |-> vertex.cmd, deps |-> vertex.deps]

\* RequestReply::Executed
ReplyExecuted(dot) == [type |-> "Executed", dot |-> dot]

NewGraphFinder ==
    [id |-> 0, ids |-> [d \in Dots |-> 0], low |-> [d \in Dots |-> 0],
     stack |-> <<>>, sccs |-> <<>>, missing |-> {}, result |-> "NotFound"]

RECURSIVE graph_strong_connect(_, _, _, _)
RECURSIVE graph_visit_deps(_, _, _, _, _)

\* Tarjan's search from dot: a dependency in the executed clock is skipped, one
\* not in the vertex index is recorded as missing, one indexed is visited
graph_strong_connect(f, dot, executed, vindex) ==
    LET id == f.id + 1
        f1 == [f EXCEPT !.id = id, !.ids[dot] = id, !.low[dot] = id,
                        !.stack = Append(@, dot), !.result = "NotFound"]
        deps == DotSeq((vindex[dot].deps \ executed) \ {dot}, FALSE)
        f2 == graph_visit_deps(f1, dot, deps, executed, vindex)
    IN IF f2.result = "MissingDependencies" THEN f2
       ELSE IF f2.low[dot] = f2.ids[dot] THEN PopSCC(f2, dot)
       ELSE [f2 EXCEPT !.result = "NotFound"]

graph_visit_deps(f, dot, deps, executed, vindex) ==
    IF deps = <<>>
    THEN (IF f.missing # {} THEN [f EXCEPT !.result = "MissingDependencies"] ELSE f)
    ELSE LET dep == Head(deps) IN
         IF dep \notin DOMAIN vindex
         THEN graph_visit_deps([f EXCEPT !.missing = @ \cup {dep}],
                               dot, Tail(deps), executed, vindex)
         ELSE IF f.ids[dep] = 0
         THEN LET g == graph_strong_connect(f, dep, executed, vindex) IN
              IF g.result = "MissingDependencies" THEN g
              ELSE graph_visit_deps([g EXCEPT !.low[dot] = Min(@, g.low[dep])],
                                    dot, Tail(deps), executed, vindex)
         ELSE IF OnStack(f, dep)
         THEN graph_visit_deps([f EXCEPT !.low[dot] = Min(@, f.ids[dep])],
                               dot, Tail(deps), executed, vindex)
         ELSE graph_visit_deps(f, dot, Tail(deps), executed, vindex)

RECURSIVE graph_save_scc(_, _)
\* an SCC found is released: its members, in Dot order, are marked executed,
\* removed from the vertex index and queued to be executed
graph_save_scc(g, scc) ==
    IF scc = <<>> THEN g
    ELSE LET dot == Head(scc)
             vertex == g.vertex_index[dot]
         IN graph_save_scc(
                [g EXCEPT !.executed_clock = @ \cup {dot},
                          !.vertex_index = GraphVertexIndexRemove(@, dot),
                          !.to_execute = Append(@, vertex.cmd),
                          !.added = @ \cup {dot}],
                Tail(scc))

RECURSIVE GraphSaveSccs(_, _)
GraphSaveSccs(g, sccs) ==
    IF sccs = <<>> THEN g ELSE GraphSaveSccs(graph_save_scc(g, Head(sccs)), Tail(sccs))

RECURSIVE Flatten(_)
Flatten(seqs) == IF seqs = <<>> THEN <<>> ELSE Head(seqs) \o Flatten(Tail(seqs))

RECURSIVE index_pending(_, _, _)
\* dot is recorded as waiting for each missing dependency, and a request is
\* owed for those PendingIndex::index returns a shard for
index_pending(g, dot, missing) ==
    IF missing = <<>> THEN g
    ELSE LET r == PendingIndexIndex(g.pending_index, Head(missing), dot)
             g1 == [g EXCEPT !.pending_index = r.pi]
             g2 == IF r.request = <<>> THEN g1
                   ELSE [g1 EXCEPT !.out_requests[r.request[1]] = @ \cup {Head(missing)}]
         IN index_pending(g2, dot, Tail(missing))

\* find_scc(dot): the graph after it and the dots released
graph_find_scc(g, dot) ==
    IF GraphVertexIndexFind(g.vertex_index, dot) = <<>>
    THEN [g |-> g, dots |-> <<>>]
    ELSE LET finder == graph_strong_connect(NewGraphFinder, dot, g.executed_clock,
                                            g.vertex_index)
             g1 == GraphSaveSccs(g, finder.sccs)
         IN [g |-> IF finder.result = "MissingDependencies"
                   THEN index_pending(g1, dot, DotSeq(finder.missing, FALSE))
                   ELSE g1,
             dots |-> Flatten(finder.sccs)]

RECURSIVE check_pending(_, _)
RECURSIVE try_waiters(_, _, _)

\* every dot that waited for a dot released is tried again, until none is left
check_pending(g, dots) ==
    IF dots = <<>> THEN g
    ELSE LET r == PendingIndexRemove(g.pending_index, Head(dots))
             waiters == IF r.dots = <<>> THEN <<>> ELSE DotSeq(r.dots[1], FALSE)
         IN try_waiters([g EXCEPT !.pending_index = r.pi], waiters, Tail(dots))

try_waiters(g, waiters, dots) ==
    IF waiters = <<>> THEN check_pending(g, dots)
    ELSE LET r == graph_find_scc(g, Head(waiters))
         IN try_waiters(r.g, Tail(waiters), dots \o r.dots)

\* DependencyGraph::handle_add; an Add for a dot already known is ignored
handle_add(g, dot, cmd, deps) ==
    IF dot \in DOMAIN g.vertex_index \/ dot \in g.executed_clock THEN g
    ELSE LET pi == IF ReplicatedBy(cmd, g.shard_id)
                      /\ TargetShard(dot, g.pending_index.n) # g.shard_id
                   THEN add_mine(g.pending_index, dot)
                   ELSE g.pending_index
             vi == GraphVertexIndexIndex(g.vertex_index, NewVertex(cmd, deps))
             r == graph_find_scc([g EXCEPT !.pending_index = pi,
                                           !.vertex_index = vi.local], dot)
         IN check_pending(r.g, r.dots)

RECURSIVE handle_request(_, _, _)
\* DependencyGraph::handle_request: per dot, its vertex if indexed, that it is
\* executed if so, else the request is kept until the dot is known
handle_request(g, from, dots) ==
    IF dots = <<>> THEN g
    ELSE LET dot == Head(dots)
             found == GraphVertexIndexFind(g.vertex_index, dot)
             g1 == IF found # <<>>
                   THEN [g EXCEPT !.out_request_replies[from] = Append(@, ReplyInfo(found[1]))]
                   ELSE IF dot \in g.executed_clock
                   THEN [g EXCEPT !.out_request_replies[from] = Append(@, ReplyExecuted(dot))]
                   ELSE [g EXCEPT !.buffered_in_requests[from] = @ \cup {dot}]
         IN handle_request(g1, from, Tail(dots))

RECURSIVE handle_request_reply(_, _)
\* DependencyGraph::handle_request_reply
handle_request_reply(g, infos) ==
    IF infos = <<>> THEN g
    ELSE LET info == Head(infos)
             g1 == IF info.type = "Info"
                   THEN handle_add(g, info.dot, info.cmd, info.deps)
                   ELSE check_pending([g EXCEPT !.executed_clock = @ \cup {info.dot}],
                                      <<info.dot>>)
         IN handle_request_reply(g1, Tail(infos))

\* DependencyGraph::handle_executed
handle_executed(g, dots) == [g EXCEPT !.executed_clock = @ \cup dots]

RECURSIVE cleanup_requests(_, _)
cleanup_requests(g, shards) ==
    IF shards = {} THEN g
    ELSE LET from == CHOOSE s \in shards : \A t \in shards : s <= t
             dots == DotSeq(g.buffered_in_requests[from], FALSE)
         IN cleanup_requests(
                handle_request([g EXCEPT !.buffered_in_requests[from] = {}], from, dots),
                shards \ {from})

\* DependencyGraph::cleanup: the requests kept are tried again
graph_cleanup(g) == cleanup_requests(g, Shards)

----------------------------------------------------------------------------
\* GraphExecutor (executor/graph/executor.rs). An executor value e is the
\* record of the fields of GraphExecutor; the store is the log of the
\* commands executed against it.

\* GraphExecutionInfo
InfoAdd(dot, cmd, deps) == [type |-> "Add", dot |-> dot, cmd |-> cmd, deps |-> deps]

InfoRequest(from, dots) == [type |-> "Request", from |-> from, dots |-> dots]

InfoRequestReply(infos) == [type |-> "RequestReply", infos |-> infos]

InfoExecuted(dots) == [type |-> "Executed", dots |-> dots]

\* GraphExecutor::new
GraphExecutorNew(shard_id, cfg) ==
    [shard_id |-> shard_id,
     config |-> cfg,
     graph |-> DependencyGraphNew(shard_id, cfg),
     store |-> <<>>,
     to_clients |-> <<>>,
     to_executors |-> <<>>]

\* GraphExecutor::execute: Command::execute runs the ops the command has on
\* the shard, and yields one result per key of the shard
execute(e, cmd) ==
    IF ReplicatedBy(cmd, e.shard_id)
    THEN [e EXCEPT !.store = Append(@, cmd.dot), !.to_clients = Append(@, cmd.dot)]
    ELSE e

RECURSIVE execute_all(_, _)
execute_all(e, cmds_) ==
    IF cmds_ = <<>> THEN e ELSE execute_all(execute(e, Head(cmds_)), Tail(cmds_))

\* GraphExecutor::fetch_commands_to_execute leaving the commands in the graph
fetch_commands_to_execute_kept(e) ==
    execute_all(e, e.graph.to_execute)

\* GraphExecutor::fetch_commands_to_execute
fetch_commands_to_execute(e) ==
    execute_all([e EXCEPT !.graph.to_execute = <<>>], e.graph.to_execute)

\* GraphExecutor::fetch_to_executors
fetch_to_executors(e) ==
    IF e.graph.added = {} THEN e
    ELSE [e EXCEPT !.graph.added = {},
                   !.to_executors = Append(@, [to |-> e.shard_id,
                                               info |-> InfoExecuted(e.graph.added)])]

RECURSIVE push_requests(_, _)
push_requests(e, shards) ==
    IF shards = {} THEN e
    ELSE LET to == CHOOSE s \in shards : \A t \in shards : s <= t
             dots == e.graph.out_requests[to]
             e1 == IF dots = {} THEN e
                   ELSE [e EXCEPT !.graph.out_requests[to] = {},
                                  !.to_executors = Append(@, [to |-> to,
                                        info |-> InfoRequest(e.shard_id, dots)])]
         IN push_requests(e1, shards \ {to})

\* GraphExecutor::fetch_requests
fetch_requests(e) == push_requests(e, Shards)

RECURSIVE push_request_replies(_, _)
push_request_replies(e, shards) ==
    IF shards = {} THEN e
    ELSE LET to == CHOOSE s \in shards : \A t \in shards : s <= t
             infos == e.graph.out_request_replies[to]
             e1 == IF infos = <<>> THEN e
                   ELSE [e EXCEPT !.graph.out_request_replies[to] = <<>>,
                                  !.to_executors = Append(@, [to |-> to,
                                        info |-> InfoRequestReply(infos)])]
         IN push_request_replies(e1, shards \ {to})

\* GraphExecutor::fetch_request_replies
fetch_request_replies(e) == push_request_replies(e, Shards)

\* GraphExecutor::fetch_actions
fetch_actions(e) ==
    LET e1 == fetch_commands_to_execute(e) IN
    IF e.config.shards > 1
    THEN fetch_request_replies(fetch_requests(fetch_to_executors(e1)))
    ELSE e1

\* GraphExecutor::handle with a RequestReply that does not fetch the actions
GraphExecutorHandleNoFetch(e, info) ==
    CASE info.type = "Add" ->
            IF e.config.execute_at_commit
            THEN execute(e, info.cmd)
            ELSE fetch_actions([e EXCEPT !.graph = handle_add(@, info.dot, info.cmd, info.deps)])
      [] info.type = "Request" ->
            fetch_actions([e EXCEPT !.graph = handle_request(@, info.from,
                                                   DotSeq(info.dots, FALSE))])
      [] info.type = "RequestReply" ->
            [e EXCEPT !.graph = handle_request_reply(@, info.infos)]
      [] info.type = "Executed" ->
            [e EXCEPT !.graph = handle_executed(@, info.dots)]

\* GraphExecutor::handle that hands every Add to the graph
GraphExecutorHandleNoBypass(e, info) ==
    CASE info.type = "Add" ->
            fetch_actions([e EXCEPT !.graph = handle_add(@, info.dot, info.cmd, info.deps)])
      [] info.type = "Request" ->
            fetch_actions([e EXCEPT !.graph = handle_request(@, info.from,
                                                   DotSeq(info.dots, FALSE))])
      [] info.type = "RequestReply" ->
            fetch_actions([e EXCEPT !.graph = handle_request_reply(@, info.infos)])
      [] info.type = "Executed" ->
            [e EXCEPT !.graph = handle_executed(@, info.dots)]

\* GraphExecutor::handle
GraphExecutorHandle(e, info) ==
    CASE info.type = "Add" ->
            IF e.config.execute_at_commit
            THEN execute(e, info.cmd)
            ELSE fetch_actions([e EXCEPT !.graph = handle_add(@, info.dot, info.cmd, info.deps)])
      [] info.type = "Request" ->
            fetch_actions([e EXCEPT !.graph = handle_request(@, info.from,
                                                   DotSeq(info.dots, FALSE))])
      [] info.type = "RequestReply" ->
            fetch_actions([e EXCEPT !.graph = handle_request_reply(@, info.infos)])
      [] info.type = "Executed" ->
            [e EXCEPT !.graph = handle_executed(@, info.dots)]

\* GraphExecutor::cleanup
GraphExecutorCleanup(e) ==
    IF e.config.shards > 1
    THEN fetch_actions([e EXCEPT !.graph = graph_cleanup(@)])
    ELSE e

\* GraphExecutor::to_executors, called until it yields None: the infos taken
ToExecutors(e) == {e.to_executors[i] : i \in 1..Len(e.to_executors)}

----------------------------------------------------------------------------
\* The executors of the shards as a state machine

ShardCount == Cardinality(Shards)

InitGraph ==
    /\ config \in {[execute_at_commit |-> b, shards |-> ShardCount] : b \in BOOLEAN}
    /\ executors = [s \in Shards |-> GraphExecutorNew(s, config)]
    /\ committed = <<>>
    /\ to_add = {}
    /\ network = {}
    \* no queue is constructed apart from the ones of the graphs
    /\ executed_clock = QueueNew.executed_clock
    /\ vertex_index = QueueNew.vertex_index
    /\ pending_index = QueueNew.pending_index
    /\ to_execute = QueueNew.to_execute
    /\ failed = QueueNew.failed
    /\ cmds = <<>>
    /\ sorted = <<>>
    /\ NoStorage
    /\ NoKeyDeps
    /\ NoClient
    /\ NoRuntime

\* the dependencies a command is committed with: none, or one dot
CommitDeps == {{}} \cup {{d} : d \in Dots}

\* the protocol commits a command: an Add is owed to the executor of every
\* shard that replicates it
Commit(dot, shards, deps) ==
    /\ dot \notin DOMAIN committed
    /\ TargetShard(dot, ShardCount) \in shards
    /\ dot \notin deps
    /\ committed' = [d \in DOMAIN committed \cup {dot} |->
                        IF d = dot THEN NewVertex(NewCommand(dot, shards), deps)
                        ELSE committed[d]]
    /\ to_add' = to_add \cup {<<s, dot>> : s \in shards}
    /\ UNCHANGED <<config, executors, network, qvars, svars, kvars, cvars, evars>>

\* the runtime hands an info to the executor of a shard, then takes the infos
\* of to_executors()
Run(shard, info) ==
    \E e1 \in {GraphExecutorHandle(executors[shard], info)} :
        /\ executors' = [executors EXCEPT ![shard] = [e1 EXCEPT !.to_executors = <<>>]]
        /\ network' = network \cup ToExecutors(e1)

\* the Add of a committed command reaches the executor of a shard
HandleAdd(shard, dot) ==
    /\ <<shard, dot>> \in to_add
    /\ to_add' = to_add \ {<<shard, dot>>}
    /\ Run(shard, InfoAdd(dot, committed[dot].cmd, committed[dot].deps))
    /\ UNCHANGED <<config, committed, qvars, svars, kvars, cvars, evars>>

\* an info sent between executors reaches its executor; it may do so again
Deliver(msg) ==
    /\ msg \in network
    /\ Run(msg.to, msg.info)
    /\ UNCHANGED <<config, committed, to_add, qvars, svars, kvars, cvars, evars>>

\* the periodic cleanup of the executor of a shard
Cleanup(shard) ==
    /\ \E e1 \in {GraphExecutorCleanup(executors[shard])} :
        /\ executors' = [executors EXCEPT ![shard] = [e1 EXCEPT !.to_executors = <<>>]]
        /\ network' = network \cup ToExecutors(e1)
    /\ UNCHANGED <<config, committed, to_add, qvars, svars, kvars, cvars, evars>>

NextGraph ==
    \/ \E dot \in Dots, shards \in SUBSET Shards, deps \in CommitDeps :
          Commit(dot, shards, deps)
    \/ \E shard \in Shards, dot \in Dots : HandleAdd(shard, dot)
    \/ \E msg \in network : Deliver(msg)
    \/ \E shard \in Shards : Cleanup(shard)

SpecGraph == InitGraph /\ [][NextGraph]_vars

----------------------------------------------------------------------------
\* The commands committed and the commands executed on the shards

Store(s) == executors[s].store

StoreSet(s) == {Store(s)[i] : i \in 1..Len(Store(s))}

StorePos(s, d) == CHOOSE i \in 1..Len(Store(s)) : Store(s)[i] = d

RECURSIVE CommittedClosure(_)
CommittedClosure(S) ==
    LET T == S \cup UNION {committed[d].deps : d \in S \cap DOMAIN committed}
    IN IF T = S THEN S ELSE CommittedClosure(T)

CommittedSameSCC(a, b) == b \in CommittedClosure({a}) /\ a \in CommittedClosure({b})

\* the vertices of a graph that could be released: the greatest set of indexed
\* dots whose dependencies are all executed or in the set
RECURSIVE Releasable(_, _)
Releasable(g, S) ==
    LET T == {d \in S : g.vertex_index[d].deps \subseteq (g.executed_clock \cup S \cup {d})}
    IN IF T = S THEN S ELSE Releasable(g, T)

----------------------------------------------------------------------------
\* Claims on the graph executor

\* C7: PendingIndex::index(dep_dot, dot) returns a shard exactly when dot is
\* the first waiter recorded for dep_dot, the target shard of dep_dot is not
\* the local shard and dep_dot is not in mine; the shard returned is the
\* target shard of dep_dot; dot is recorded as a waiter of dep_dot in every
\* case. Every Request taken from an executor goes to the target shard of
\* each dot it names, and never to the shard it is from.
C7_RequestOwedToTargetShard ==
    /\ \A s \in Shards, dep_dot \in Dots, dot \in Dots :
          LET pi == executors[s].graph.pending_index
              r == PendingIndexIndex(pi, dep_dot, dot)
              target == TargetShard(dep_dot, pi.n)
          IN /\ (r.request # <<>>) <=>
                    (dep_dot \notin DOMAIN pi.index /\ target # pi.shard_id
                     /\ dep_dot \notin pi.mine)
             /\ r.request # <<>> => r.request = <<target>>
             /\ dep_dot \in DOMAIN r.pi.index /\ dot \in r.pi.index[dep_dot]
             /\ \A d \in DOMAIN pi.index : pi.index[d] \subseteq r.pi.index[d]
    /\ \A msg \in network :
          msg.info.type = "Request" =>
              /\ msg.info.from # msg.to
              /\ \A d \in msg.info.dots : TargetShard(d, ShardCount) = msg.to

\* two commands wait for the same dot on a shard that asked for it once, and
\* a shard holds a dot in mine
C7_Witness ==
    /\ \E s \in Shards, dep_dot \in Dots :
          LET pi == executors[s].graph.pending_index IN
          /\ dep_dot \in DOMAIN pi.index
          /\ Cardinality(pi.index[dep_dot]) = 2
          /\ \E msg \in network :
                /\ msg.info.type = "Request"
                /\ msg.info.from = s
                /\ dep_dot \in msg.info.dots
    /\ \E s \in Shards : executors[s].graph.pending_index.mine # {}

\* an executor that handles the info again, or is cleaned up, stays as it is
\* and yields no info that was not taken before
Settled(e, e1) ==
    /\ [e1 EXCEPT !.to_executors = <<>>] = e
    /\ ToExecutors(e1) \subseteq network

\* every Add was handled, and handling any info sent so far again changes
\* nothing
Quiescent ==
    /\ to_add = {}
    /\ \A msg \in network :
          Settled(executors[msg.to], GraphExecutorHandle(executors[msg.to], msg.info))
    /\ \A s \in Shards : Settled(executors[s], GraphExecutorCleanup(executors[s]))

C9_BlockedVertexReleased ==
    [][\A msg \in network :
          (/\ msg.info.type = "RequestReply"
           /\ to_add' = to_add
           /\ committed' = committed
           /\ \A t \in Shards \ {msg.to} : executors'[t] = executors[t]
           /\ Deliver(msg)) =>
              LET s == msg.to
                  g == executors[s].graph
                  g2 == executors'[s].graph
              IN /\ \A i \in 1..Len(msg.info.infos) :
                        msg.info.infos[i].dot \in DOMAIN g2.vertex_index \cup g2.executed_clock
                 /\ Releasable(g2, DOMAIN g2.vertex_index) = {}
                 /\ g2.to_execute = <<>>
                 /\ \A d \in DOMAIN g.vertex_index :
                        d \notin DOMAIN g2.vertex_index =>
                            /\ d \in g2.executed_clock
                            /\ ReplicatedBy(g.vertex_index[d].cmd, s) =>
                                   \E i \in 1..Len(executors'[s].store) :
                                       executors'[s].store[i] = d]_vars

\* a command was executed on a shard that does not replicate its dependency,
\* after the shard was sent the dependency as committed
C9_Witness ==
    \E s \in Shards, d \in DOMAIN committed :
        /\ d \in StoreSet(s)
        /\ \E e \in committed[d].deps :
              /\ e \in DOMAIN committed
              /\ ~ReplicatedBy(committed[e].cmd, s)
              /\ committed[e].deps # {}
              /\ \E msg \in network :
                    /\ msg.to = s /\ msg.info.type = "RequestReply"
                    /\ \E i \in 1..Len(msg.info.infos) :
                          msg.info.infos[i] = ReplyInfo(committed[e])

\* C10: with execute_at_commit, an Add is executed against the store when it
\* is handled, whatever its dependencies: the command is appended to the
\* commands executed on the shard, the graph is left as it was and no info
\* for another executor is produced.
C10_ExecutedAtCommit ==
    [][\A s \in Shards, d \in Dots :
          (config.execute_at_commit /\ HandleAdd(s, d)) =>
              /\ executors'[s].store = Append(executors[s].store, d)
              /\ executors'[s].to_clients = Append(executors[s].to_clients, d)
              /\ executors'[s].graph = executors[s].graph
              /\ executors'[s].to_executors = <<>>
              /\ network' = network
              /\ \A t \in Shards \ {s} : executors'[t] = executors[t]]_vars

\* with execute_at_commit, a command was executed on a shard before the
\* command it depends on
C10_Witness ==
    /\ config.execute_at_commit
    /\ \E s \in Shards, d \in DOMAIN committed :
          /\ d \in StoreSet(s)
          /\ \E e \in committed[d].deps :
                /\ e \in StoreSet(s)
                /\ StorePos(s, d) < StorePos(s, e)
                /\ ~CommittedSameSCC(d, e)

----------------------------------------------------------------------------
\* The KV storage engine (fantoch/src/store.rs)

\* Value::MAX and Value::MIN of Value = u16
ValueMAX == 65535

ValueMIN == 0

\* DEFAULT_N_MRV, the number of cells of a key in MRV mode, and
\* DEFAULT_K_SUB_MRV, as bounded in the model
DEFAULT_N_MRV == 2

DEFAULT_K_SUB_MRV == 2

\* number of calls of Storage::execute in a run
MaxOps == 3

\* Option<T>: None, Some(x)
None == <<>>

Some(x) == <<x>>

\* StorageOp
OpGet == [type |-> "Get", value |-> 0]

OpPut(v) == [type |-> "Put", value |-> v]

OpAdd(v) == [type |-> "Add", value |-> v]

OpSubtract(v) == [type |-> "Subtract", value |-> v]

OpDelete == [type |-> "Delete", value |-> 0]

\* u16::checked_add, as the cell of the key would wrap without it
checked_add_wrapping(a, b) == Some((a + b) % (ValueMAX + 1))

\* u16::checked_add
checked_add(a, b) == IF a + b <= ValueMAX THEN Some(a + b) ELSE None

\* u16::checked_sub
checked_sub(a, b) == IF a >= b THEN Some(a - b) ELSE None

\* the sum of a sequence of values, as an integer
RECURSIVE SeqSum(_)
SeqSum(seq) == IF seq = <<>> THEN 0 ELSE Head(seq) + SeqSum(Tail(seq))

\* Iterator::sum into a Value: an overflow panics in a build with overflow
\* checks and wraps in a build without
SumValues(seq, oc) ==
    [value |-> SeqSum(seq) % (ValueMAX + 1), panic |-> oc /\ SeqSum(seq) > ValueMAX]

\* Storage::new (no monitor)
StorageNew(is_kv_storage, n) ==
    [store |-> <<>>, is_kv_storage |-> is_kv_storage,
     number |-> IF n = None THEN 1 ELSE n[1]]

\* HashMap::insert and HashMap::remove on the store
StoreInsert(store, key, vec) ==
    [k \in DOMAIN store \cup {key} |-> IF k = key THEN vec ELSE store[k]]

StoreRemove(store, key) == [k \in DOMAIN store \ {key} |-> store[k]]

\* the cells of a new vector, were each of them given the value
NewCellsFilled(number, index, value) == [i \in 1..number |-> value]

\* vec![0; number] with vec[index] = value
NewCells(number, index, value) == [i \in 1..number |-> IF i = index + 1 THEN value ELSE 0]

\* what a call leaves: the storage, the result, whether it panicked
Ret(s, res) == [s |-> s, res |-> res, panic |-> FALSE]

Panicked(s) == [s |-> s, res |-> None, panic |-> TRUE]

\* the loop of the MRV Subtract over n_deps: a cell not above the remaining
\* value is zeroed, the first one above it pays the rest
RECURSIVE Deduct(_, _, _)
Deduct(vec, remaining_value, n_deps) ==
    IF n_deps = <<>> THEN vec
    ELSE LET index == Head(n_deps) IN
         IF index < Len(vec)
         THEN IF vec[index + 1] <= remaining_value
              THEN Deduct([vec EXCEPT ![index + 1] = 0],
                          remaining_value - vec[index + 1], Tail(n_deps))
              ELSE [vec EXCEPT ![index + 1] = @ - remaining_value]
         ELSE Deduct(vec, remaining_value, Tail(n_deps))

\* the MRV Subtract, as it would be without its balance check
subtract_mrv_unchecked(s, key, value, n_deps, oc) ==
    Ret([s EXCEPT !.store[key] = Deduct(@, value, n_deps)], Some(value))

\* the MRV Subtract on a present key
subtract_mrv(s, key, value, n_deps, oc) ==
    LET old_vec == s.store[key]
        sum == SumValues([i \in 1..Len(n_deps) |->
                            IF n_deps[i] < Len(old_vec) THEN old_vec[n_deps[i] + 1] ELSE 0], oc)
    IN IF sum.panic THEN Panicked(s)
       ELSE IF sum.value < value THEN Ret(s, None)
       ELSE Ret([s EXCEPT !.store[key] = Deduct(old_vec, value, n_deps)], Some(value))

\* Storage::do_execute_op
do_execute_op(s, key, op, n_deps, oc) ==
    LET present == key \in DOMAIN s.store
        index == IF s.is_kv_storage \/ n_deps = <<>> THEN 0 ELSE n_deps[1]
    IN
    CASE op.type = "Get" ->
           IF ~present THEN Ret(s, None)
           ELSE LET sum == SumValues(s.store[key], oc)
                IN IF sum.panic THEN Panicked(s) ELSE Ret(s, Some(sum.value))
      [] op.type = "Delete" ->
           IF ~present THEN Ret(s, None)
           ELSE LET sum == SumValues(s.store[key], oc)
                IN IF sum.panic THEN Panicked(s)
                   ELSE Ret([s EXCEPT !.store = StoreRemove(@, key)], Some(sum.value))
      [] op.type = "Put" ->
           IF s.is_kv_storage
           THEN Ret([s EXCEPT !.store = StoreInsert(@, key, <<op.value>>)], Some(op.value))
           ELSE IF index >= s.number THEN Panicked(s)
           ELSE Ret([s EXCEPT !.store = StoreInsert(@, key, NewCells(s.number, index, op.value))],
                    Some(op.value))
      [] op.type = "Add" ->
           IF present
           THEN IF index >= Len(s.store[key]) THEN Panicked(s)
                ELSE LET new_value == IF checked_add(s.store[key][index + 1], op.value) = None
                                      THEN ValueMAX
                                      ELSE checked_add(s.store[key][index + 1], op.value)[1]
                     IN Ret([s EXCEPT !.store[key][index + 1] = new_value], Some(new_value))
           ELSE IF index >= s.number THEN Panicked(s)
           ELSE Ret([s EXCEPT !.store = StoreInsert(@, key, NewCells(s.number, index, op.value))],
                    Some(op.value))
      [] op.type = "Subtract" ->
           IF ~present THEN Ret(s, None)
           ELSE IF s.is_kv_storage
           THEN LET new_value == IF checked_sub(s.store[key][1], op.value) = None
                                 THEN ValueMIN
                                 ELSE checked_sub(s.store[key][1], op.value)[1]
                IN Ret([s EXCEPT !.store[key][1] = new_value], Some(new_value))
           ELSE subtract_mrv(s, key, op.value, n_deps, oc)

\* Storage::do_execute: the ops in order, op i with n_deps[i] or no list
RECURSIVE do_execute_from(_, _, _, _, _, _, _)
do_execute_from(s, key, ops, n_deps, oc, index, results) ==
    IF index > Len(ops) THEN [s |-> s, results |-> results, panic |-> FALSE]
    ELSE LET r == do_execute_op(s, key, ops[index],
                                IF index <= Len(n_deps) THEN n_deps[index] ELSE <<>>, oc)
         IN IF r.panic THEN [s |-> s, results |-> results, panic |-> TRUE]
            ELSE do_execute_from(r.s, key, ops, n_deps, oc, index + 1, Append(results, r.res))

do_execute(s, key, ops, n_deps, oc) == do_execute_from(s, key, ops, n_deps, oc, 1, <<>>)

\* Storage::execute, of a storage that has no monitor
StorageExecute(s, key, ops, n_deps, oc) == do_execute(s, key, ops, n_deps, oc)

\* the indexes from a to b - 1, as a Vec
RECURSIVE Range(_, _)
Range(a, b) == IF a >= b THEN <<>> ELSE <<a>> \o Range(a + 1, b)

\* the two loops of get_n_deps_by_cmd for a Subtract: the cells from n on,
\* then the ones before n, until the value is covered
RECURSIVE Consume(_, _, _, _, _, _)
Consume(values, value, vec, value_consumed, indexes, oc) ==
    IF value_consumed >= value THEN [res |-> Some(vec), panic |-> FALSE]
    ELSE IF indexes = <<>> THEN [res |-> None, panic |-> FALSE]
    ELSE LET i == Head(indexes) IN
         IF i >= Len(values) THEN [res |-> None, panic |-> TRUE]
         ELSE IF value_consumed + values[i + 1] > ValueMAX /\ oc
         THEN [res |-> None, panic |-> TRUE]
         ELSE Consume(values, value, Append(vec, i),
                      (value_consumed + values[i + 1]) % (ValueMAX + 1), Tail(indexes), oc)

\* Storage::get_n_deps_by_cmd, n being the random number drawn
get_n_deps_by_cmd(s, key, op, n, oc) ==
    IF op.type \in {"Delete", "Get", "Put"}
    THEN [res |-> Some(Range(0, s.number)), panic |-> FALSE]
    ELSE IF op.type = "Add" THEN [res |-> Some(<<n>>), panic |-> FALSE]
    ELSE IF key \notin DOMAIN s.store THEN [res |-> None, panic |-> FALSE]
    ELSE Consume(s.store[key], op.value, <<n>>, 0,
                 Range(n, s.number) \o Range(0, n), oc)

\* the index list of do_add_cmd, were a Put to engage sub-index 0 only
op_n_deps_put_first(op, n) ==
    IF op.type = "Add" THEN <<n>>
    ELSE IF op.type = "Put" THEN <<0>>
    ELSE IF op.type \in {"Delete", "Get"} THEN Range(0, DEFAULT_N_MRV)
    ELSE LET run == Range(n, DEFAULT_K_SUB_MRV)
         IN [i \in 1..Len(run) |-> (n + run[i]) % DEFAULT_N_MRV]

\* the index list MultiRecordValues::do_add_cmd chooses for an op that comes
\* without one, n being the random number drawn
op_n_deps(op, n) ==
    IF op.type = "Add" THEN <<n>>
    ELSE IF op.type \in {"Delete", "Get", "Put"} THEN Range(0, DEFAULT_N_MRV)
    ELSE LET run == Range(n, DEFAULT_K_SUB_MRV)
         IN [i \in 1..Len(run) |-> (n + run[i]) % DEFAULT_N_MRV]

----------------------------------------------------------------------------
\* The storage and its callers as a state machine

\* the values of the ops of a run
Values == {1, 2, ValueMAX}

StorageOps ==
    {OpGet, OpDelete} \cup {OpPut(v) : v \in Values} \cup {OpAdd(v) : v \in Values}
        \cup {OpSubtract(v) : v \in Values}

\* the index lists an op is executed with: none (test_execute), or the list
\* chosen by do_add_cmd, for a store of as many cells
NDepsOf(op, number) ==
    {<<>>} \cup {<<op_n_deps(op, n)>> : n \in {m \in 0..(DEFAULT_N_MRV - 1) :
                    \A i \in 1..Len(op_n_deps(op, m)) : op_n_deps(op, m)[i] < number}}

InitStore ==
    /\ storage \in {StorageNew(kv, n) : kv \in BOOLEAN, n \in {None, Some(DEFAULT_N_MRV)}}
    /\ overflow_checks \in BOOLEAN
    /\ panicked = FALSE
    /\ last = <<>>
    /\ n_deps_pending = <<>>
    /\ n_executed = 0
    /\ NoKeyDeps
    /\ NoClient
    /\ NoRuntime
    \* no queue and no graph executor is constructed
    /\ executed_clock = QueueNew.executed_clock
    /\ vertex_index = QueueNew.vertex_index
    /\ pending_index = QueueNew.pending_index
    /\ to_execute = QueueNew.to_execute
    /\ failed = QueueNew.failed
    /\ cmds = <<>>
    /\ sorted = <<>>
    /\ config = [execute_at_commit |-> FALSE, shards |-> 1]
    /\ executors = <<>>
    /\ committed = <<>>
    /\ to_add = {}
    /\ network = {}

\* a call of Storage::execute
ExecuteStep(key, ops, n_deps) ==
    /\ ~panicked
    /\ n_executed < MaxOps
    /\ \E r \in {StorageExecute(storage, key, ops, n_deps, overflow_checks)} :
        /\ storage' = r.s
        /\ panicked' = r.panic
        /\ last' = <<[key |-> key, ops |-> ops, n_deps |-> n_deps,
                      results |-> r.results, before |-> storage.store,
                      panic |-> r.panic]>>
    /\ n_executed' = n_executed + 1
    /\ UNCHANGED <<overflow_checks, qvars, gvars, kvars, cvars, evars>>

\* Storage::execute of ops that come with no index list or with the one
\* chosen by do_add_cmd
Execute(key, op, n_deps) ==
    /\ n_deps \in NDepsOf(op, storage.number)
    /\ ExecuteStep(key, <<op>>, n_deps)
    /\ UNCHANGED n_deps_pending

\* Storage::get_n_deps_by_cmd for a Subtract that is executed later (for an
\* op of another kind the list does not depend on the store)
GetNDeps(key, op, n) ==
    /\ ~panicked
    /\ op.type = "Subtract"
    /\ n_deps_pending = <<>>
    /\ n < storage.number
    /\ \E r \in {get_n_deps_by_cmd(storage, key, op, n, overflow_checks)} :
        /\ panicked' = r.panic
        /\ n_deps_pending' = IF r.res = None THEN <<>>
                             ELSE <<[key |-> key, op |-> op, n_deps |-> r.res[1]]>>
    /\ UNCHANGED <<storage, overflow_checks, last, n_executed, qvars, gvars, kvars, cvars, evars>>

\* Storage::execute of the op with the index list get_n_deps_by_cmd gave
ExecutePending ==
    /\ n_deps_pending # <<>>
    /\ ExecuteStep(n_deps_pending[1].key, <<n_deps_pending[1].op>>,
                   <<n_deps_pending[1].n_deps>>)
    /\ n_deps_pending' = <<>>

NextStore ==
    \/ \E key \in Keys, op \in StorageOps :
          \E n_deps \in NDepsOf(op, storage.number) : Execute(key, op, n_deps)
    \/ \E key \in Keys, op \in StorageOps, n \in 0..(DEFAULT_N_MRV - 1) : GetNDeps(key, op, n)
    \/ ExecutePending

SpecStore == InitStore /\ [][NextStore]_vars


----------------------------------------------------------------------------
\* The last call of Storage::execute

Called == last # <<>>

TheKey == last[1].key

TheOp == last[1].ops[1]

\* the index list of the op, empty when it came with none
TheNDeps == IF last[1].n_deps = <<>> THEN <<>> ELSE last[1].n_deps[1]

TheResult == last[1].results[1]

Before == last[1].before

After == storage.store

WasPresent == TheKey \in DOMAIN Before

\* the last call of Storage::execute panicked
CallPanicked == last[1].panic

\* the other keys hold what they held
OthersUnchanged ==
    /\ DOMAIN After \ {TheKey} = DOMAIN Before \ {TheKey}
    /\ \A k \in DOMAIN After \ {TheKey} : After[k] = Before[k]

\* the cells an index list names, one per entry of the list
CellsNamed(vec, n_deps) ==
    [i \in 1..Len(n_deps) |-> IF n_deps[i] < Len(vec) THEN vec[n_deps[i] + 1] ELSE 0]

\* what Get returns next on the key of the last call
NextGet == do_execute_op(storage, TheKey, OpGet, <<>>, overflow_checks)

\* C12: in single-cell mode Put(v) stores v as the value of the key and
\* returns None, and the next Get on the key returns Some(v).
C12_PutReturnsNone ==
    (Called /\ storage.is_kv_storage /\ TheOp.type = "Put") =>
        /\ ~CallPanicked
        /\ TheResult = None
        /\ After[TheKey] = <<TheOp.value>>
        /\ NextGet.res = Some(TheOp.value)

\* C13: in single-cell mode, on a present key, Add(v) leaves min(old + v,
\* 65535) in the cell and Subtract(v) leaves max(old - v, 0), each returns
\* Some(the new cell), and no cell ever leaves the range of u16.
C13_SaturatingArithmetic ==
    storage.is_kv_storage =>
        /\ \A k \in DOMAIN After : \A i \in 1..Len(After[k]) : After[k][i] \in ValueMIN..ValueMAX
        /\ (Called /\ WasPresent /\ TheOp.type = "Add") =>
              /\ ~CallPanicked
              /\ After[TheKey][1] = Min(Before[TheKey][1] + TheOp.value, ValueMAX)
              /\ TheResult = Some(After[TheKey][1])
        /\ (Called /\ WasPresent /\ TheOp.type = "Subtract") =>
              /\ ~CallPanicked
              /\ After[TheKey][1] = IF Before[TheKey][1] >= TheOp.value
                                    THEN Before[TheKey][1] - TheOp.value ELSE ValueMIN
              /\ TheResult = Some(After[TheKey][1])

\* an Add that saturated, then a Subtract
C13_Witness ==
    /\ Called /\ storage.is_kv_storage /\ WasPresent /\ ~CallPanicked
    /\ TheOp.type = "Subtract" /\ TheOp.value > 0
    /\ Before[TheKey][1] = ValueMAX /\ n_executed = MaxOps

\* C14: Delete on a present key returns Some(sum of its cells) and removes
\* the key, so that the next Get returns None; Get and Delete on an absent
\* key return None and change nothing; Get never changes the store.
C14_GetAndDelete ==
    (Called /\ TheOp.type \in {"Get", "Delete"}) =>
        /\ ~CallPanicked
        /\ OthersUnchanged
        /\ (TheOp.type = "Delete" /\ WasPresent) =>
              /\ TheResult = Some(Min(SeqSum(Before[TheKey]), ValueMAX))
              /\ TheKey \notin DOMAIN After
              /\ NextGet.res = None
        /\ ~WasPresent => (TheResult = None /\ After = Before)
        /\ TheOp.type = "Get" => After = Before

C16_SubtractDeductsExactly ==
    (Called /\ ~storage.is_kv_storage /\ TheOp.type = "Subtract" /\ ~CallPanicked
        /\ TheResult = Some(TheOp.value)) =>
        /\ SeqSum(Before[TheKey]) - SeqSum(After[TheKey]) = TheOp.value
        /\ \A i \in 1..Len(Before[TheKey]) :
              After[TheKey][i] # Before[TheKey][i] =>
                  \E j \in 1..Len(TheNDeps) : TheNDeps[j] = i - 1
        /\ OthersUnchanged

\* C17: in MRV mode no sum of cells overflows: no call panics, Get and Delete
\* return the sum of the cells saturated at 65535, and a Subtract whose named
\* cells (each named once) hold at least v is not refused.
C17_SumsSaturate ==
    ~storage.is_kv_storage =>
        /\ ~panicked
        /\ (Called /\ WasPresent /\ TheOp.type \in {"Get", "Delete"}) =>
              TheResult = Some(Min(SeqSum(Before[TheKey]), ValueMAX))
        /\ (Called /\ WasPresent /\ TheOp.type = "Subtract"
              /\ (\A i, j \in 1..Len(TheNDeps) : TheNDeps[i] = TheNDeps[j] => i = j)
              /\ SeqSum(CellsNamed(Before[TheKey], TheNDeps)) >= TheOp.value) =>
              TheResult = Some(TheOp.value)

\* C18: a store of one cell per key created with is_kv_storage = false and
\* n = None, executing ops with no index list: Put(x) returns None, Subtract(y)
\* with y at most the value stored returns Some(the value less y) and a
\* larger Subtract returns Some(Value::MIN).
C18_OneCellStoreAsSingleCell ==
    (Called /\ ~storage.is_kv_storage /\ storage.number = 1 /\ TheNDeps = <<>>) =>
        /\ ~CallPanicked
        /\ TheOp.type = "Put" => TheResult = None
        /\ (TheOp.type = "Subtract" /\ WasPresent) =>
              TheResult = Some(IF Before[TheKey][1] >= TheOp.value
                               THEN Before[TheKey][1] - TheOp.value ELSE ValueMIN)

\* the sum of the cells an index list names
ListSum(vec, list) == SeqSum(CellsNamed(vec, list))

\* the first len entries of a list
Prefix(list, len) == [j \in 1..len |-> list[j]]

\* C32: for a Subtract(v) on a present key get_n_deps_by_cmd returns the
\* shortest run r, r + 1, ... (mod N) from the number r drawn whose cells sum
\* to at least v, no index twice; it returns None exactly when the key is
\* absent or all the cells of the key sum to less than v
C32_ShortestRunFromDraw ==
    /\ [](\A key \in Keys, op \in StorageOps, n \in 0..(DEFAULT_N_MRV - 1) :
            (op.type = "Subtract" /\ n < storage.number) =>
                LET r == get_n_deps_by_cmd(storage, key, op, n, overflow_checks)
                IN ~r.panic =>
                      (r.res = None <=>
                          (\/ key \notin DOMAIN storage.store
                           \/ SeqSum(storage.store[key]) < op.value)))
    /\ [][(n_deps_pending = <<>> /\ n_deps_pending' # <<>>) =>
             LET p == n_deps_pending'[1]
                 list == p.n_deps
             IN /\ p.key \in DOMAIN storage.store
                /\ Len(list) \in 1..storage.number
                /\ \A j \in 1..Len(list) : list[j] = (list[1] + j - 1) % storage.number
                /\ ListSum(storage.store[p.key], list) >= p.op.value
                /\ Len(list) > 1 =>
                      ListSum(storage.store[p.key], Prefix(list, Len(list) - 1)) < p.op.value]_vars

\* C36: in MRV mode a Put(v) that comes with an index list returns Some(v) and
\* leaves v as the total of the cells of the key, whatever the key held; the
\* Get that follows returns Some(v), and no other key changes
C36_MrvPutSetsTotal ==
    (Called /\ ~storage.is_kv_storage /\ TheOp.type = "Put" /\ TheNDeps # <<>>) =>
        /\ ~CallPanicked
        /\ TheResult = Some(TheOp.value)
        /\ TheKey \in DOMAIN After
        /\ SeqSum(After[TheKey]) = TheOp.value
        /\ NextGet = Ret(storage, Some(TheOp.value))
        /\ OthersUnchanged

\* a Put with an index list was executed on a key that held a positive value
\* in each of its cells, of another total
C36_Witness ==
    /\ Called /\ ~storage.is_kv_storage /\ TheOp.type = "Put" /\ TheNDeps # <<>>
    /\ WasPresent
    /\ Len(Before[TheKey]) > 1
    /\ \A c \in 1..Len(Before[TheKey]) : Before[TheKey][c] > 0
    /\ SeqSum(Before[TheKey]) # TheOp.value
    /\ TheResult = Some(TheOp.value)

----------------------------------------------------------------------------
\* Commands (fantoch/src/command.rs) and the MRV dependency tracker
\* (fantoch_ps protocol/common/graph/deps/keys/mrvs.rs)

\* DEFAULT_SHARD_ID
DEFAULT_SHARD_ID == 0

\* the keys of a map in the order they are iterated
KeysInOrder(S) ==
    (IF "A" \in S THEN <<"A">> ELSE <<>>) \o (IF "B" \in S THEN <<"B">> ELSE <<>>)

\* Command::new, without its rifl: shard -> key -> ops, and the keys of each
\* shard, which are pushed once when the ops are wrapped and once more when
\* shard_to_n_deps_ops is filled
CommandNew(shard_to_ops) ==
    [shard_to_ops |-> shard_to_ops,
     shard_to_keys |-> [s \in {x \in DOMAIN shard_to_ops : DOMAIN shard_to_ops[x] # {}} |->
                          KeysInOrder(DOMAIN shard_to_ops[s])
                             \o KeysInOrder(DOMAIN shard_to_ops[s])]]

\* Command::read_only: all ops are Gets
read_only(cmd) ==
    \A s \in DOMAIN cmd.shard_to_ops : \A k \in DOMAIN cmd.shard_to_ops[s] :
        \A i \in 1..Len(cmd.shard_to_ops[s][k]) : cmd.shard_to_ops[s][k][i] = OpGet

\* Command::total_key_count
total_key_count(cmd) ==
    Cardinality({<<s, k>> \in (DOMAIN cmd.shard_to_ops) \X Keys : k \in DOMAIN cmd.shard_to_ops[s]})

\* Command::keys(shard_id), in the order they are iterated
CommandKeys(cmd, shard_id) ==
    IF shard_id \notin DOMAIN cmd.shard_to_ops THEN <<>>
    ELSE KeysInOrder(DOMAIN cmd.shard_to_ops[shard_id])

\* Command::operations(shard_id, key)
operations(cmd, shard_id, key) ==
    IF shard_id \in DOMAIN cmd.shard_to_ops /\ key \in DOMAIN cmd.shard_to_ops[shard_id]
    THEN cmd.shard_to_ops[shard_id][key] ELSE <<>>

\* Dependency::from_cmd and Dependency::from_noop
DependencyFromCmd(dot, cmd) == [dot |-> dot, shards |-> DOMAIN cmd.shard_to_ops]

DependencyFromNoop(dot) == [dot |-> dot, shards |-> {}]

\* extract_dots
extract_dots(deps) == {dep.dot : dep \in deps}

\* LatestRWDepArray::default
LatestRWDepArrayDefault == [i \in 1..DEFAULT_N_MRV |-> [read |-> None, write |-> None]]

\* MultiRecordValues::new
MultiRecordValuesNew(shard_id, nfr, n_mrv) ==
    [shard_id |-> shard_id, nfr |-> nfr, n_mrv |-> n_mrv, latest |-> <<>>, latest_noop |-> None]

\* an Option as the set of what it holds
OptionSet(o) == IF o = None THEN {} ELSE {o[1]}

\* maybe_add_deps: every command depends on the latest write; the latest read
\* is a dependency of a command that is not read-only, unless NFR is enabled
maybe_add_deps(is_read_only, nfr, latest_rw, deps) ==
    deps \cup OptionSet(latest_rw.write)
         \cup (IF ~is_read_only /\ ~nfr THEN OptionSet(latest_rw.read) ELSE {})

\* do_add_cmd, `finally, store the command`, were every command stored as the
\* latest read
store_latest_as_read(latest_rw, is_read_only, cmd_dep) ==
    [latest_rw EXCEPT !.read = Some(cmd_dep)]

\* do_add_cmd, `finally, store the command`: a read-only command is the latest
\* read of the slot, any other the latest write
store_latest(latest_rw, is_read_only, cmd_dep) ==
    IF is_read_only THEN [latest_rw EXCEPT !.read = Some(cmd_dep)]
    ELSE [latest_rw EXCEPT !.write = Some(cmd_dep)]

\* do_add_cmd, `for n in op_n_deps`, were every slot of the key visited
op_slots_all(list) == Range(0, DEFAULT_N_MRV)

\* do_add_cmd, `for n in op_n_deps`: the slots an op visits
op_slots(list) == list

\* do_add_cmd, the loop over the slots of an op; st is [latest, deps,
\* keys_deps, rand, panic]
RECURSIVE visit_slots(_, _, _, _, _, _)
visit_slots(st, key, slots, is_read_only, nfr, cmd_dep) ==
    IF slots = <<>> \/ st.panic THEN st
    ELSE LET n == Head(slots)
             data == IF key \in DOMAIN st.latest THEN st.latest[key]
                     ELSE LatestRWDepArrayDefault
         IN IF n >= Len(data) THEN [st EXCEPT !.panic = TRUE]
            ELSE LET new_data == [data EXCEPT ![n + 1] = store_latest(@, is_read_only, cmd_dep)]
                 IN visit_slots(
                        [st EXCEPT !.deps = maybe_add_deps(is_read_only, nfr, data[n + 1], @),
                                   !.latest = [k \in DOMAIN st.latest \cup {key} |->
                                                 IF k = key THEN new_data ELSE st.latest[k]]],
                        key, Tail(slots), is_read_only, nfr, cmd_dep)

\* whether do_add_cmd draws a random number for an op that has no index list
DrawsFor(op) == op.type \in {"Add", "Subtract"}

\* do_add_cmd, the loop over the operations of a key
RECURSIVE visit_ops(_, _, _, _, _, _, _)
visit_ops(st, key, ops, index, is_read_only, nfr, cmd_dep) ==
    IF index > Len(ops) \/ st.panic THEN st
    ELSE LET op == ops[index]
             n_key_dep == st.keys_deps[key]
             given == index <= Len(n_key_dep)
             op_n == IF given THEN n_key_dep[index]
                     ELSE op_n_deps(op, IF DrawsFor(op) THEN Head(st.rand) ELSE 0)
             st1 == IF given THEN st
                    ELSE [st EXCEPT !.keys_deps[key] = Append(@, op_n),
                                    !.rand = IF DrawsFor(op) THEN Tail(@) ELSE @]
         IN visit_ops(visit_slots(st1, key, op_slots(op_n), is_read_only, nfr, cmd_dep),
                      key, ops, index + 1, is_read_only, nfr, cmd_dep)

\* do_add_cmd, the loop over the keys of the command on the shard
RECURSIVE visit_keys(_, _, _, _, _, _)
visit_keys(st, keys, cmd, shard_id, nfr, cmd_dep) ==
    IF keys = <<>> \/ st.panic THEN st
    ELSE LET key == Head(keys)
             st1 == IF key \in DOMAIN st.keys_deps THEN st
                    ELSE [st EXCEPT !.keys_deps = [k \in DOMAIN st.keys_deps \cup {key} |->
                                                     IF k = key THEN <<>> ELSE st.keys_deps[k]]]
         IN visit_keys(visit_ops(st1, key, operations(cmd, shard_id, key), 1,
                                 read_only(cmd), nfr, cmd_dep),
                       Tail(keys), cmd, shard_id, nfr, cmd_dep)

\* do_add_cmd, `we only support single-key read commands with NFR`, were the
\* assertion to reject only the commands of more than one key
nfr_assert_multi_key(kd, cmd) == ~(kd.nfr /\ read_only(cmd) /\ total_key_count(cmd) > 1)

\* do_add_cmd, `we only support single-key read commands with NFR`: what the
\* assertion requires
nfr_assert(kd, cmd) == IF kd.nfr /\ read_only(cmd) THEN total_key_count(cmd) = 1 ELSE TRUE

\* maybe_add_noop_latest, were the latest noop never included
maybe_add_noop_latest_never(kd, deps) == deps

\* MultiRecordValues::maybe_add_noop_latest
maybe_add_noop_latest(kd, deps) == deps \cup OptionSet(kd.latest_noop)

\* MultiRecordValues::do_add_cmd, rand being the random numbers drawn: the
\* tracker left, the deps and the index lists returned, whether it panicked
do_add_cmd(kd, dot, cmd, deps, keys_deps, rand) ==
    IF ~nfr_assert(kd, cmd)
    THEN [kd |-> kd, deps |-> {}, keys_deps |-> <<>>, panic |-> TRUE, assert_failed |-> TRUE]
    ELSE LET st == visit_keys([latest |-> kd.latest, deps |-> deps, keys_deps |-> keys_deps,
                               rand |-> rand, panic |-> FALSE],
                              CommandKeys(cmd, kd.shard_id), cmd, kd.shard_id, kd.nfr,
                              DependencyFromCmd(dot, cmd))
         IN [kd |-> [kd EXCEPT !.latest = st.latest],
             deps |-> maybe_add_noop_latest(kd, st.deps),
             keys_deps |-> st.keys_deps, panic |-> st.panic, assert_failed |-> FALSE]

\* add_cmd, were the index lists it is given left aside
add_cmd_fresh_lists(kd, dot, cmd, past, keys_deps, rand) ==
    do_add_cmd(kd, dot, cmd, IF past = None THEN {} ELSE past[1], <<>>, rand)

\* MultiRecordValues::add_cmd
add_cmd(kd, dot, cmd, past, keys_deps, rand) ==
    do_add_cmd(kd, dot, cmd, IF past = None THEN {} ELSE past[1],
               IF keys_deps = None THEN <<>> ELSE keys_deps[1], rand)

\* do_noop_deps, were the latest writes alone included
do_noop_deps_writes(kd, deps) ==
    deps \cup UNION {OptionSet(kd.latest[k][i].write) :
                        <<k, i>> \in {<<k2, i2>> \in (DOMAIN kd.latest) \X (1..DEFAULT_N_MRV) :
                                         i2 <= Len(kd.latest[k2])}}

\* MultiRecordValues::do_noop_deps
do_noop_deps(kd, deps) ==
    deps \cup UNION {OptionSet(kd.latest[k][i].read) \cup OptionSet(kd.latest[k][i].write) :
                        <<k, i>> \in {<<k2, i2>> \in (DOMAIN kd.latest) \X (1..DEFAULT_N_MRV) :
                                         i2 <= Len(kd.latest[k2])}}

\* MultiRecordValues::add_noop (do_add_noop)
add_noop(kd, dot) ==
    [kd |-> [kd EXCEPT !.latest_noop = Some(DependencyFromNoop(dot))],
     deps |-> do_noop_deps(kd, OptionSet(kd.latest_noop)),
     keys_deps |-> <<>>, panic |-> FALSE, assert_failed |-> FALSE]

----------------------------------------------------------------------------
\* MultiRecordValues as a state machine: commands and noops are added to one
\* tracker, each with the next dot

\* no queue and no graph executor is constructed
NoQueueNoGraph ==
    /\ executed_clock = QueueNew.executed_clock
    /\ vertex_index = QueueNew.vertex_index
    /\ pending_index = QueueNew.pending_index
    /\ to_execute = QueueNew.to_execute
    /\ failed = QueueNew.failed
    /\ cmds = <<>>
    /\ sorted = <<>>
    /\ config = [execute_at_commit |-> FALSE, shards |-> 1]
    /\ executors = <<>>
    /\ committed = <<>>
    /\ to_add = {}
    /\ network = {}

\* a command on one key of one shard
OnKey(shard_id, key, ops) == CommandNew([s \in {shard_id} |-> [k \in {key} |-> ops]])

\* a command on both keys of the tracker's shard
OnBothKeys(opsA, opsB) ==
    CommandNew([s \in {DEFAULT_SHARD_ID} |-> [k \in Keys |-> IF k = "A" THEN opsA ELSE opsB]])

\* a command of no key
NoKeys == CommandNew([s \in {DEFAULT_SHARD_ID} |-> <<>>])

\* a dependency the tracker has not seen, as a `past` brings
PastDep == DependencyFromNoop(<<N, MaxDots + 1>>)

\* the calls of add_cmd: [cmd, past, keys_deps]
KeyDepsInputs ==
    {[cmd |-> OnKey(DEFAULT_SHARD_ID, "A", <<op>>), past |-> None, keys_deps |-> None] :
        op \in {OpGet, OpPut(1), OpAdd(1), OpSubtract(1)}}
    \cup {[cmd |-> OnKey(DEFAULT_SHARD_ID, "B", <<OpAdd(1)>>), past |-> None, keys_deps |-> None]}
    \cup {[cmd |-> OnKey(DEFAULT_SHARD_ID, "A", <<OpGet, OpAdd(1)>>), past |-> None,
           keys_deps |-> None],
          [cmd |-> OnBothKeys(<<OpPut(1)>>, <<OpAdd(1)>>), past |-> None, keys_deps |-> None],
          [cmd |-> OnBothKeys(<<OpGet>>, <<OpGet>>), past |-> None, keys_deps |-> None],
          [cmd |-> OnKey(1, "A", <<OpPut(1)>>), past |-> None, keys_deps |-> None],
          [cmd |-> NoKeys, past |-> None, keys_deps |-> None],
          [cmd |-> OnKey(DEFAULT_SHARD_ID, "A", <<OpPut(1)>>), past |-> Some({PastDep}),
           keys_deps |-> None]}
    \cup {[cmd |-> OnKey(DEFAULT_SHARD_ID, "A", <<OpPut(1)>>), past |-> None,
           keys_deps |-> Some([k \in {"A"} |-> <<<<n>>>>])] : n \in {1, DEFAULT_N_MRV}}

\* how many random numbers do_add_cmd draws for a call
DrawCount(inp, shard_id) ==
    Cardinality({<<k, i>> \in Keys \X (1..MaxOps) :
        /\ i <= Len(operations(inp.cmd, shard_id, k))
        /\ DrawsFor(operations(inp.cmd, shard_id, k)[i])
        /\ ~(/\ inp.keys_deps # None
             /\ k \in DOMAIN inp.keys_deps[1]
             /\ i <= Len(inp.keys_deps[1][k]))})

\* the random numbers of a call
Rands(count) == [1..count -> 0..(DEFAULT_N_MRV - 1)]

InitKeyDeps ==
    /\ key_deps \in {MultiRecordValuesNew(DEFAULT_SHARD_ID, nfr, DEFAULT_N_MRV) : nfr \in BOOLEAN}
    /\ added = <<>>
    /\ replica = <<>>
    /\ replica_done = <<>>
    /\ attempt = <<>>
    /\ NoClient
    /\ NoRuntime
    /\ NoStorage
    /\ NoQueueNoGraph

\* what a call of add_cmd or add_noop leaves in the tracker and in `added`
Track(r, dot, cmd, call) ==
    /\ key_deps' = r.kd
    /\ attempt' = <<[dot |-> dot, cmd |-> cmd, before |-> key_deps, panic |-> r.panic,
                     assert_failed |-> r.assert_failed, past |-> call.past,
                     keys_deps |-> call.keys_deps, rand |-> call.rand,
                     deps |-> r.deps, returned |-> r.keys_deps]>>
    /\ added' = IF r.panic THEN added
                ELSE Append(added, [dot |-> dot, cmd |-> cmd, deps |-> r.deps,
                                    keys_deps |-> r.keys_deps])

\* a call of MultiRecordValues::add_cmd
AddCmd(inp, rand) ==
    /\ ~panicked
    /\ Len(added) < MaxDots
    /\ LET r == add_cmd(key_deps, DotOf(Len(added) + 1), inp.cmd, inp.past, inp.keys_deps, rand)
       IN /\ Track(r, DotOf(Len(added) + 1), Some(inp.cmd),
                   [past |-> inp.past, keys_deps |-> inp.keys_deps, rand |-> rand])
          /\ panicked' = r.panic
    /\ UNCHANGED <<storage, overflow_checks, last, n_deps_pending, n_executed,
                   replica, replica_done, qvars, gvars, cvars, evars>>

\* a call of MultiRecordValues::add_noop
AddNoop ==
    /\ ~panicked
    /\ Len(added) < MaxDots
    /\ Track(add_noop(key_deps, DotOf(Len(added) + 1)), DotOf(Len(added) + 1), None,
             [past |-> None, keys_deps |-> None, rand |-> <<>>])
    /\ panicked' = FALSE
    /\ UNCHANGED <<storage, overflow_checks, last, n_deps_pending, n_executed,
                   replica, replica_done, qvars, gvars, cvars, evars>>

NextKeyDeps ==
    \/ \E inp \in KeyDepsInputs :
          \E rand \in Rands(DrawCount(inp, key_deps.shard_id)) : AddCmd(inp, rand)
    \/ AddNoop

SpecKeyDeps == InitKeyDeps /\ [][NextKeyDeps]_vars

\* ---- what the claims observe of the tracker

\* the i-th call added a command
IsCmd(i) == added[i].cmd # None

\* the sub-indexes the i-th call engaged on a key, over all its operations
IndexSet(i, key) ==
    IF key \in DOMAIN added[i].keys_deps
    THEN UNION {{added[i].keys_deps[key][o][x] : x \in 1..Len(added[i].keys_deps[key][o])} :
                   o \in 1..Len(added[i].keys_deps[key])}
    ELSE {}

\* the keys the i-th call touched on the tracker's shard
LocalKeys(i) ==
    IF IsCmd(i) THEN {k \in Keys : operations(added[i].cmd[1], key_deps.shard_id, k) # <<>>}
    ELSE {}

\* the i-th call is read-only
IsReadOnly(i) == read_only(added[i].cmd[1])

\* the i-th call's dot is a dependency of the j-th
DependsOn(j, i) == added[i].dot \in extract_dots(added[j].deps)

\* the keys two calls share on the tracker's shard
SharedKeys(i, j) == LocalKeys(i) \cap LocalKeys(j)

\* two calls that added commands, the i-th before the j-th
CmdPairs ==
    {<<i, j>> \in (1..Len(added)) \X (1..Len(added)) : i < j /\ IsCmd(i) /\ IsCmd(j)}

\* the two commands chose disjoint sub-index sets on every key they share
DisjointOnShared(i, j) ==
    \A k \in SharedKeys(i, j) : IndexSet(i, k) \cap IndexSet(j, k) = {}

\* C19: two commands added to the MRV tracker that chose disjoint sub-index
\* sets on every key they share are not in each other's returned dep set
C19_DisjointIndexesNoDeps ==
    \A <<i, j>> \in CmdPairs :
        DisjointOnShared(i, j) => ~DependsOn(j, i) /\ ~DependsOn(i, j)

\* two writes added one after the other share a key, on which both engaged
\* sub-indexes, none in common
C19_Witness ==
    \E <<i, j>> \in CmdPairs :
        /\ j = i + 1
        /\ ~IsReadOnly(i) /\ ~IsReadOnly(j)
        /\ \E k \in SharedKeys(i, j) : IndexSet(i, k) # {} /\ IndexSet(j, k) # {}
        /\ DisjointOnShared(i, j)
        /\ ~DependsOn(j, i) /\ ~DependsOn(i, j)

\* no command between the i-th and the j-th took the i-th's place in slot n of
\* the key: the latest read if the i-th is read-only, the latest write if not
NotOverwritten(i, j, k, n) ==
    \A m \in (i + 1)..(j - 1) :
        ~(IsCmd(m) /\ n \in IndexSet(m, k) /\ IsReadOnly(m) = IsReadOnly(i))

\* the i-th and the j-th touch a key with a common sub-index that nobody
\* overwrote in between, and one of them is not read-only
Collide(i, j) ==
    /\ ~(IsReadOnly(i) /\ IsReadOnly(j))
    /\ \E k \in SharedKeys(i, j) : \E n \in IndexSet(i, k) \cap IndexSet(j, k) :
          NotOverwritten(i, j, k, n)

\* C20 as stated: of two commands that touch the same key with a common
\* sub-index, one of them not read-only, the second has the first's dot in its
\* returned dep set when no other command overwrote the slot in between
C20_Original ==
    \A <<i, j>> \in CmdPairs : Collide(i, j) => DependsOn(j, i)

\* C20, amended: of two commands that touch the same key with a common
\* sub-index, one of them not read-only, the second has the first's dot in its
\* returned dep set when no other command overwrote the slot in between,
\* unless NFR is enabled and the first command is read-only
C20_CollidingIndexesDepend ==
    \A <<i, j>> \in CmdPairs :
        Collide(i, j) /\ ~(key_deps.nfr /\ IsReadOnly(i)) => DependsOn(j, i)

\* without NFR, a write follows a read-only command on a common sub-index,
\* another command in between, and has the read's dot in its dep set
C20_Witness ==
    \E <<i, j>> \in CmdPairs :
        /\ ~key_deps.nfr
        /\ j = i + 2
        /\ IsReadOnly(i) /\ ~IsReadOnly(j)
        /\ Collide(i, j)
        /\ DependsOn(j, i)

\* the latest noop added before the i-th call, as a set of at most one call
LastNoopBefore(i) ==
    {j \in 1..(i - 1) : ~IsCmd(j) /\ \A m \in (j + 1)..(i - 1) : IsCmd(m)}

\* the commands that are the latest write of some slot of a key when the i-th
\* call is made
LatestWritesBefore(i, k) ==
    {j \in 1..(i - 1) :
        /\ IsCmd(j) /\ ~IsReadOnly(j)
        /\ \E n \in IndexSet(j, k) :
              \A m \in (j + 1)..(i - 1) : ~(IsCmd(m) /\ ~IsReadOnly(m) /\ n \in IndexSet(m, k))}

\* C21: with NFR enabled, the deps returned for a read-only single-key command
\* are latest writes of that key or the latest noop, and the dot of the read
\* is in the deps of no call made later
C21_NfrReadIsNoConflictSource ==
    key_deps.nfr =>
        \A i \in 1..Len(added) :
            IsCmd(i) /\ IsReadOnly(i) /\ LocalKeys(i) # {} =>
                /\ \A k \in LocalKeys(i) :
                      \A j \in 1..Len(added) :
                          DependsOn(i, j) => j \in LatestWritesBefore(i, k) \cup LastNoopBefore(i)
                /\ \A j \in (i + 1)..Len(added) : ~DependsOn(j, i)

\* C22 as stated: the assertion of add_cmd fails exactly for a read-only
\* command of more than one key with NFR enabled, and then the tracker is as
\* it was before the call
C22_Original ==
    attempt # <<>> /\ attempt[1].cmd # None =>
        /\ attempt[1].assert_failed <=>
              (/\ attempt[1].before.nfr
               /\ read_only(attempt[1].cmd[1])
               /\ total_key_count(attempt[1].cmd[1]) > 1)
        /\ attempt[1].assert_failed => key_deps = attempt[1].before

\* C22, amended: the assertion of add_cmd fails exactly for a read-only
\* command whose number of keys is not one (more than one key, or none) with
\* NFR enabled, and then the tracker is as it was before the call
C22_NfrAssertion ==
    attempt # <<>> /\ attempt[1].cmd # None =>
        /\ attempt[1].assert_failed <=>
              (/\ attempt[1].before.nfr
               /\ read_only(attempt[1].cmd[1])
               /\ total_key_count(attempt[1].cmd[1]) # 1)
        /\ attempt[1].assert_failed => key_deps = attempt[1].before

\* a read of two keys has failed the assertion of a tracker that had slots,
\* and left them as they were
C22_Witness ==
    /\ attempt # <<>> /\ attempt[1].cmd # None
    /\ attempt[1].assert_failed
    /\ total_key_count(attempt[1].cmd[1]) = 2
    /\ attempt[1].before.latest # <<>>
    /\ key_deps = attempt[1].before

\* the latest read and the latest write of every slot of every key
AllLatest(kd) ==
    UNION {UNION {OptionSet(kd.latest[k][n].read) \cup OptionSet(kd.latest[k][n].write) :
                     n \in 1..Len(kd.latest[k])} : k \in DOMAIN kd.latest}

\* the last call was an add_noop
NoopAdded == attempt # <<>> /\ attempt[1].cmd = None

\* C23: add_noop returns the latest read and the latest write of every slot of
\* every key, and the previous latest noop if there was one; it makes its dot
\* the latest noop and changes no slot
C23_NoopDeps ==
    NoopAdded =>
        /\ added[Len(added)].deps
              = AllLatest(attempt[1].before) \cup OptionSet(attempt[1].before.latest_noop)
        /\ key_deps.latest_noop = Some(DependencyFromNoop(attempt[1].dot))
        /\ key_deps.latest = attempt[1].before.latest

\* a noop was added after another noop and a read, and depends on both
C23_Witness ==
    /\ NoopAdded
    /\ attempt[1].before.latest_noop # None
    /\ \E k \in DOMAIN key_deps.latest : \E n \in 1..Len(key_deps.latest[k]) :
          key_deps.latest[k][n].read # None
    /\ Cardinality(added[Len(added)].deps) = 2
    /\ key_deps.latest = attempt[1].before.latest

\* C24: once a noop has been added, the deps returned by every later add_cmd
\* contain the latest noop, whatever the command touches
C24_LatestNoopAlwaysIncluded ==
    \A i \in 1..Len(added) :
        IsCmd(i) => \A j \in LastNoopBefore(i) : DependsOn(i, j)

\* a command of no key of the tracker's shard was added after a noop, and
\* depends on it
C24_Witness ==
    \E i \in 1..Len(added) :
        /\ IsCmd(i)
        /\ LocalKeys(i) = {}
        /\ LastNoopBefore(i) # {}
        /\ \A j \in LastNoopBefore(i) : DependsOn(i, j)

\* ---- the index lists add_cmd chooses and returns

\* the last call was an add_cmd that returned
CmdAdded == attempt # <<>> /\ attempt[1].cmd # None /\ ~attempt[1].panic

\* the ops of the last command on a key of the tracker's shard
LastOps(k) == operations(attempt[1].cmd[1], attempt[1].before.shard_id, k)

\* the (key, op index) pairs of the last command on the tracker's shard
LastOpIds == {<<k, i>> \in Keys \X (1..MaxOps) : i <= Len(LastOps(k))}

\* the last call brought an index list for op i of key k
Supplied(k, i) ==
    /\ attempt[1].keys_deps # None
    /\ k \in DOMAIN attempt[1].keys_deps[1]
    /\ i <= Len(attempt[1].keys_deps[1][k])

\* the place, among the random numbers of the last call, of the one drawn for
\* op i of key k: keys are visited in order, and the ops of a key in order
DrawIndex(k, i) ==
    1 + Cardinality({<<k2, i2>> \in LastOpIds :
                        /\ DrawsFor(LastOps(k2)[i2])
                        /\ ~Supplied(k2, i2)
                        /\ (KeyLt(k2, k) \/ (k2 = k /\ i2 < i))})

\* the index list the last call returned for op i of key k
Chosen(k, i) == attempt[1].returned[k][i]

\* C31: the index list add_cmd chooses for a Subtract that comes without one
\* is a non-empty run r, r + 1, ... (mod N) starting at the number r drawn,
\* no longer than N, and the Subtract is the latest write of a slot of the key
C31_SubtractRunStartsAtDraw ==
    CmdAdded =>
        \A <<k, i>> \in LastOpIds :
            LastOps(k)[i].type = "Subtract" /\ ~Supplied(k, i) =>
                LET list == Chosen(k, i)
                    r == attempt[1].rand[DrawIndex(k, i)]
                IN /\ list # <<>>
                   /\ Len(list) <= DEFAULT_N_MRV
                   /\ \A j \in 1..Len(list) : list[j] = (r + j - 1) % DEFAULT_N_MRV
                   /\ \E n \in 1..DEFAULT_N_MRV :
                         key_deps.latest[k][n].write
                            = Some(DependencyFromCmd(attempt[1].dot, attempt[1].cmd[1]))

\* the slots of a key the last call engaged, over all the ops of the key
Engaged(k) ==
    IF k \in DOMAIN attempt[1].returned
    THEN UNION {{attempt[1].returned[k][i][x] + 1 : x \in 1..Len(attempt[1].returned[k][i])} :
                   i \in 1..Len(attempt[1].returned[k])}
    ELSE {}

\* a slot of a key as the last call found it
SlotBefore(k, n) ==
    IF k \in DOMAIN attempt[1].before.latest THEN attempt[1].before.latest[k][n]
    ELSE LatestRWDepArrayDefault[n]

\* the dependency the last call made of its command
LastDep == DependencyFromCmd(attempt[1].dot, attempt[1].cmd[1])

\* the last call brought an index list for some op
SomeSupplied == \E <<k, i>> \in LastOpIds : Supplied(k, i)

C34_NoSelfDependency ==
    (CmdAdded /\ attempt[1].past = None) =>
        attempt[1].dot \notin extract_dots(attempt[1].deps)

----------------------------------------------------------------------------
\* Commands ordered by the tracker and executed by two stores: each command
\* is given to add_cmd and executed at once by the first store, with the index
\* lists add_cmd returned; the second store executes the same commands in any
\* order in which every command comes after the commands it depends on

\* Command::execute on the keys of a shard, each key's ops with the index
\* lists chosen for them
RECURSIVE execute_keys(_, _, _, _, _, _)
execute_keys(s, keys, cmd, shard_id, keys_deps, oc) ==
    IF keys = <<>> THEN [s |-> s, panic |-> FALSE]
    ELSE LET r == StorageExecute(s, Head(keys), operations(cmd, shard_id, Head(keys)),
                                 IF Head(keys) \in DOMAIN keys_deps THEN keys_deps[Head(keys)]
                                 ELSE <<>>, oc)
         IN IF r.panic THEN [s |-> s, panic |-> TRUE]
            ELSE execute_keys(r.s, Tail(keys), cmd, shard_id, keys_deps, oc)

CommandExecute(s, cmd, shard_id, keys_deps, oc) ==
    execute_keys(s, CommandKeys(cmd, shard_id), cmd, shard_id, keys_deps, oc)

\* the values of the ops given to the two stores
OrderValues == {1, ValueMAX}

\* the commands given to the two stores
OrderCommands ==
    {OnKey(DEFAULT_SHARD_ID, "A", <<op>>) :
        op \in {OpGet, OpDelete} \cup {OpPut(v) : v \in OrderValues}
                \cup {OpAdd(v) : v \in OrderValues} \cup {OpSubtract(v) : v \in OrderValues}}
    \cup {OnKey(DEFAULT_SHARD_ID, "B", <<OpAdd(1)>>)}

InitOrder ==
    /\ key_deps \in {MultiRecordValuesNew(DEFAULT_SHARD_ID, nfr, DEFAULT_N_MRV) : nfr \in BOOLEAN}
    /\ added = <<>>
    /\ storage = StorageNew(FALSE, Some(DEFAULT_N_MRV))
    /\ replica = StorageNew(FALSE, Some(DEFAULT_N_MRV))
    /\ replica_done = <<>>
    /\ attempt = <<>>
    /\ NoClient
    /\ NoRuntime
    /\ overflow_checks \in BOOLEAN
    /\ panicked = FALSE
    /\ last = <<>>
    /\ n_deps_pending = <<>>
    /\ n_executed = 0
    /\ NoQueueNoGraph

\* add_cmd of a command, and its execution by the first store
Submit(cmd, rand) ==
    /\ ~panicked
    /\ Len(added) < MaxDots
    /\ LET r == add_cmd(key_deps, DotOf(Len(added) + 1), cmd, None, None, rand)
           e == CommandExecute(storage, cmd, key_deps.shard_id, r.keys_deps, overflow_checks)
       IN /\ Track(r, DotOf(Len(added) + 1), Some(cmd),
                   [past |-> None, keys_deps |-> None, rand |-> rand])
          /\ storage' = IF r.panic THEN storage ELSE e.s
          /\ panicked' = (r.panic \/ e.panic)
    /\ UNCHANGED <<overflow_checks, last, n_deps_pending, n_executed,
                   replica, replica_done, qvars, gvars, cvars, evars>>

\* the calls the second store has executed
ReplicaDone == {replica_done[x] : x \in 1..Len(replica_done)}

\* the execution, by the second store, of a command whose dependencies it has
\* executed
Replicate(i) ==
    /\ ~panicked
    /\ i \in 1..Len(added)
    /\ i \notin ReplicaDone
    /\ \A j \in 1..Len(added) : j # i /\ DependsOn(i, j) => j \in ReplicaDone
    /\ LET e == CommandExecute(replica, added[i].cmd[1], key_deps.shard_id,
                               added[i].keys_deps, overflow_checks)
       IN /\ replica' = e.s
          /\ panicked' = e.panic
    /\ replica_done' = Append(replica_done, i)
    /\ UNCHANGED <<storage, overflow_checks, last, n_deps_pending, n_executed,
                   key_deps, added, attempt, qvars, gvars, cvars, evars>>

NextOrder ==
    \/ \E cmd \in OrderCommands :
          \E rand \in Rands(DrawCount([cmd |-> cmd, keys_deps |-> None], key_deps.shard_id)) :
              Submit(cmd, rand)
    \/ \E i \in 1..MaxDots : Replicate(i)

SpecOrder == InitOrder /\ [][NextOrder]_vars

\* the second store has executed every command added so far
CaughtUp == ReplicaDone = 1..Len(added)

----------------------------------------------------------------------------
\* A tracker and its stores created with the same number of sub-records n_mrv,
\* which need not be DEFAULT_N_MRV: commands are added and executed as above

InitIndex ==
    /\ key_deps \in {MultiRecordValuesNew(DEFAULT_SHARD_ID, FALSE, n) : n \in 1..DEFAULT_N_MRV}
    /\ added = <<>>
    /\ storage = StorageNew(FALSE, Some(key_deps.n_mrv))
    /\ replica = StorageNew(FALSE, Some(key_deps.n_mrv))
    /\ replica_done = <<>>
    /\ attempt = <<>>
    /\ NoClient
    /\ NoRuntime
    /\ overflow_checks = FALSE
    /\ panicked = FALSE
    /\ last = <<>>
    /\ n_deps_pending = <<>>
    /\ n_executed = 0
    /\ NoQueueNoGraph

SpecIndex == InitIndex /\ [][NextOrder]_vars

\* C35: every key of a tracker created with n_mrv has n_mrv slots, every
\* sub-index add_cmd chooses is below n_mrv and is a cell index of a store
\* created with n_mrv, and neither add_cmd nor the store panics on an index
C35_ChosenIndexesValid ==
    /\ \A k \in DOMAIN key_deps.latest : Len(key_deps.latest[k]) = key_deps.n_mrv
    /\ (attempt # <<>> /\ attempt[1].cmd # None) =>
          /\ ~attempt[1].panic
          /\ \A <<k, i>> \in LastOpIds : \A x \in 1..Len(Chosen(k, i)) :
                /\ Chosen(k, i)[x] < key_deps.n_mrv
                /\ Chosen(k, i)[x] < storage.number
    /\ ~panicked

----------------------------------------------------------------------------
\* Storage::execute of several ops on a key, of which each, the first ones or
\* none comes with an index list

\* the ops of a call: one or two
OpSeqs ==
    LET ops == {OpGet, OpDelete, OpPut(1), OpAdd(1), OpSubtract(1)}
    IN {<<a>> : a \in ops} \cup {<<a, b>> : a \in ops, b \in ops}

\* the index lists of a call: none, or the last cell for the first ops
ListSeqs(ops) ==
    {[i \in 1..len |-> <<DEFAULT_N_MRV - 1>>] : len \in 0..Len(ops)}

InitExecute ==
    /\ storage \in {StorageNew(kv, Some(DEFAULT_N_MRV)) : kv \in BOOLEAN}
    /\ overflow_checks \in BOOLEAN
    /\ panicked = FALSE
    /\ last = <<>>
    /\ n_deps_pending = <<>>
    /\ n_executed = 0
    /\ NoKeyDeps
    /\ NoClient
    /\ NoRuntime
    /\ NoQueueNoGraph

\* a call of Storage::execute with the ops of a key
ExecuteOps(key, ops, n_deps) ==
    /\ ExecuteStep(key, ops, n_deps)
    /\ UNCHANGED n_deps_pending

NextExecute ==
    \E key \in Keys, ops \in OpSeqs : \E n_deps \in ListSeqs(ops) : ExecuteOps(key, ops, n_deps)

SpecExecute == InitExecute /\ [][NextExecute]_vars

\* the index list op i of the last call came with, empty when it came with none
ListAt(i) == IF i <= Len(last[1].n_deps) THEN last[1].n_deps[i] ELSE <<>>

\* the storage as the ops before op i of the last call left it
RECURSIVE StorageAt(_)
StorageAt(i) ==
    IF i = 1 THEN [storage EXCEPT !.store = Before]
    ELSE do_execute_op(StorageAt(i - 1), TheKey, last[1].ops[i - 1], ListAt(i - 1),
                       overflow_checks).s

\* C37: Storage::execute returns one result per op, in the order of the ops,
\* op i being executed with index list n_deps[i] on the storage the ops before
\* it left; an op that has no index list does what it does with the list [0]
C37_ExecuteInOrder ==
    (Called /\ ~CallPanicked) =>
        /\ Len(last[1].results) = Len(last[1].ops)
        /\ \A i \in 1..Len(last[1].ops) :
              /\ last[1].results[i]
                    = do_execute_op(StorageAt(i), TheKey, last[1].ops[i], ListAt(i),
                                    overflow_checks).res
              /\ ListAt(i) = <<>> =>
                    do_execute_op(StorageAt(i), TheKey, last[1].ops[i], <<>>, overflow_checks)
                       = do_execute_op(StorageAt(i), TheKey, last[1].ops[i], <<0>>,
                                       overflow_checks)
        /\ storage = StorageAt(Len(last[1].ops) + 1)

----------------------------------------------------------------------------
\* The graph executor of a shard and the caller that takes its results with
\* to_clients()

\* GraphExecutor::to_clients: Vec::pop on to_clients
GraphExecutorToClients(e) ==
    IF e.to_clients = <<>> THEN [e |-> e, res |-> <<>>]
    ELSE [e |-> [e EXCEPT !.to_clients = SubSeq(@, 1, Len(@) - 1)],
          res |-> <<e.to_clients[Len(e.to_clients)]>>]

\* one shard, whose executor is given the commands of the processes it is the
\* target shard of
InitClients ==
    /\ config \in {[execute_at_commit |-> b, shards |-> 1] : b \in BOOLEAN}
    /\ executors = [s \in {DEFAULT_SHARD_ID} |-> GraphExecutorNew(s, config)]
    /\ committed = <<>>
    /\ to_add = {}
    /\ network = {}
    /\ delivered = [s \in {DEFAULT_SHARD_ID} |-> <<>>]
    /\ key_clocks = <<>>
    /\ clocked = <<>>
    /\ basic = <<>>
    /\ served = <<>>
    /\ executed_clock = QueueNew.executed_clock
    /\ vertex_index = QueueNew.vertex_index
    /\ pending_index = QueueNew.pending_index
    /\ to_execute = QueueNew.to_execute
    /\ failed = QueueNew.failed
    /\ cmds = <<>>
    /\ sorted = <<>>
    /\ NoStorage
    /\ NoKeyDeps
    /\ NoClient

\* the protocol commits a command of the shard
CommitOnShard(dot, deps) ==
    /\ dot \notin DOMAIN committed
    /\ TargetShard(dot, config.shards) = DEFAULT_SHARD_ID
    /\ dot \notin deps
    /\ committed' = [d \in DOMAIN committed \cup {dot} |->
                        IF d = dot THEN NewVertex(NewCommand(dot, {DEFAULT_SHARD_ID}), deps)
                        ELSE committed[d]]
    /\ to_add' = to_add \cup {<<DEFAULT_SHARD_ID, dot>>}
    /\ UNCHANGED <<config, executors, network, qvars, svars, kvars, cvars, evars>>

\* the Add of a committed command reaches the executor
HandleAddOf(dot) ==
    /\ HandleAdd(DEFAULT_SHARD_ID, dot)
    /\ UNCHANGED delivered

\* the runtime takes a result of the executor with to_clients()
ToClients ==
    /\ \E r \in {GraphExecutorToClients(executors[DEFAULT_SHARD_ID])} :
          /\ r.res # <<>>
          /\ executors' = [executors EXCEPT ![DEFAULT_SHARD_ID] = r.e]
          /\ delivered' = [delivered EXCEPT ![DEFAULT_SHARD_ID] = @ \o r.res]
    /\ UNCHANGED <<config, committed, to_add, network, qvars, svars, kvars, cvars,
                   key_clocks, clocked, basic, served>>

NextClients ==
    \/ \E dot \in Dots, deps \in CommitDeps : CommitOnShard(dot, deps)
    \/ \E dot \in Dots : HandleAddOf(dot)
    \/ ToClients

SpecClients == InitClients /\ [][NextClients]_vars

\* C38: the results to_clients() has returned on a shard, followed by the ones
\* still pending there, are the results of the commands executed on the shard,
\* in the order of their execution and each once
C38_ResultsInExecutionOrder ==
    \A s \in DOMAIN delivered : delivered[s] \o executors[s].to_clients = Store(s)

----------------------------------------------------------------------------
\* SequentialKeyClocks (protocol/common/graph/clocks/keys/sequential.rs): a
\* VClock maps each process to the highest sequence it holds, and holds the
\* dots of the process up to it; a command is the set of its keys

\* bottom_clock(n): the clock of n processes that holds no dot
bottom_clock(n) == [p \in 1..n |-> 0]

\* VClock::add(source, sequence)
VClockAdd(vclock, source, sequence) ==
    [vclock EXCEPT ![source] = IF sequence > @ THEN sequence ELSE @]

\* VClock::join
VClockJoin(vclock, other) ==
    [p \in DOMAIN vclock |->
        IF p \in DOMAIN other /\ other[p] > vclock[p] THEN other[p] ELSE vclock[p]]

\* the join of a clock with each clock of a set
RECURSIVE VClockJoinAll(_, _)
VClockJoinAll(vclock, others) ==
    IF others = {} THEN vclock
    ELSE LET o == CHOOSE x \in others : TRUE
         IN VClockJoinAll(VClockJoin(vclock, o), others \ {o})

\* VClock::contains
VClockContains(vclock, dot) == vclock[Source(dot)] >= Sequence(dot)

\* SequentialKeyClocks::new
SequentialKeyClocksNew(n) == [n |-> n, clocks |-> <<>>, noop_clock |-> bottom_clock(n)]

\* clock_with_past, were the noop clock left out
clock_with_past_keys_only(kc, cmd, past) ==
    IF cmd # None
    THEN VClockJoinAll(past, {kc.clocks[key] : key \in cmd[1] \cap DOMAIN kc.clocks})
    ELSE VClockJoinAll(past, {kc.clocks[key] : key \in DOMAIN kc.clocks})

\* SequentialKeyClocks::clock_with_past; cmd is an Option of the keys of the
\* command
clock_with_past(kc, cmd, past) ==
    LET joined == VClockJoin(past, kc.noop_clock)
    IN IF cmd # None
       THEN VClockJoinAll(joined, {kc.clocks[key] : key \in cmd[1] \cap DOMAIN kc.clocks})
       ELSE VClockJoinAll(joined, {kc.clocks[key] : key \in DOMAIN kc.clocks})

\* SequentialKeyClocks::clock
clock_of(kc, cmd) == clock_with_past(kc, cmd, bottom_clock(kc.n))

\* SequentialKeyClocks::add(dot, cmd): the dot is added to the clock of each
\* key of the command, or to the noop clock
add_dot(kc, dot, cmd) ==
    IF cmd # None
    THEN [kc EXCEPT !.clocks =
            [key \in DOMAIN kc.clocks \cup cmd[1] |->
                IF key \in cmd[1]
                THEN VClockAdd(IF key \in DOMAIN kc.clocks THEN kc.clocks[key]
                               ELSE bottom_clock(kc.n), Source(dot), Sequence(dot))
                ELSE kc.clocks[key]]]
    ELSE [kc EXCEPT !.noop_clock = VClockAdd(@, Source(dot), Sequence(dot))]

\* KeyClocks::add(dot, cmd, past) of SequentialKeyClocks: the clocks left and
\* the clock returned
KeyClocksAdd(kc, dot, cmd, past) ==
    [kc |-> add_dot(kc, dot, cmd),
     clock |-> IF past # None THEN clock_with_past(kc, cmd, past[1]) ELSE clock_of(kc, cmd)]

\* the commands of a run, each an Option of its keys: the noop and commands of
\* no, one or two keys
ClockCommands == {None} \cup {Some(keys) : keys \in SUBSET Keys}

\* the past of a call: none, or a clock that holds a dot of the last process
ClockPasts == {None, Some(VClockAdd(bottom_clock(N), N, 1))}

InitClocks ==
    /\ key_clocks = SequentialKeyClocksNew(N)
    /\ clocked = <<>>
    /\ delivered = <<>>
    /\ basic = <<>>
    /\ served = <<>>
    /\ NoClient
    /\ NoStorage
    /\ NoKeyDeps
    /\ NoQueueNoGraph

\* a call of KeyClocks::add with a dot not yet added
ClockAdd(dot, cmd, past) ==
    /\ \A i \in 1..Len(clocked) : clocked[i].dot # dot
    /\ \E r \in {KeyClocksAdd(key_clocks, dot, cmd, past)} :
          /\ key_clocks' = r.kc
          /\ clocked' = Append(clocked, [dot |-> dot, cmd |-> cmd, clock |-> r.clock])
    /\ UNCHANGED <<delivered, basic, served, qvars, gvars, svars, kvars, cvars>>

NextClocks ==
    \E dot \in Dots, cmd \in ClockCommands, past \in ClockPasts : ClockAdd(dot, cmd, past)

SpecClocks == InitClocks /\ [][NextClocks]_vars

\* the i-th call added a noop
ClockedNoop(i) == clocked[i].cmd = None

\* the keys of the command the i-th call added
ClockedKeys(i) == IF ClockedNoop(i) THEN {} ELSE clocked[i].cmd[1]

\* the clock returned by the j-th call holds the dot of the i-th
Holds(j, i) == VClockContains(clocked[j].clock, clocked[i].dot)

\* C39 as stated: the clock returned for a command holds the dot of every
\* command added before it that shares a key with it and of every noop added
\* before it; the clock returned for a noop holds the dot of every command and
\* noop added before it
C39_Original ==
    \A j \in 1..Len(clocked) : \A i \in 1..(j - 1) :
        (\/ ClockedNoop(j)
         \/ ClockedNoop(i)
         \/ ClockedKeys(i) \cap ClockedKeys(j) # {}) => Holds(j, i)

\* C39, amended: as stated, for the commands that touch at least one key; a
\* command of no key is in no clock, and the clock returned for a later noop
\* need not hold its dot
C39_ClocksHoldConflicts ==
    \A j \in 1..Len(clocked) : \A i \in 1..(j - 1) :
        (\/ ClockedNoop(j) /\ (ClockedNoop(i) \/ ClockedKeys(i) # {})
         \/ ClockedNoop(i)
         \/ ClockedKeys(i) \cap ClockedKeys(j) # {}) => Holds(j, i)

\* a command, then a noop of another process, then a command that shares a
\* key with the first were added: the clock of the noop holds the first dot,
\* the clock of the last holds both
C39_Witness ==
    /\ Len(clocked) = 3
    /\ ~ClockedNoop(1) /\ ClockedNoop(2) /\ ~ClockedNoop(3)
    /\ ClockedKeys(1) \cap ClockedKeys(3) # {}
    /\ ClockedKeys(1) # ClockedKeys(3)
    /\ Source(clocked[1].dot) # Source(clocked[2].dot)
    /\ Holds(2, 1) /\ Holds(3, 1) /\ Holds(3, 2)

----------------------------------------------------------------------------
\* Command (fantoch/src/command.rs): conflicts and merge

\* number of commands merged into a command
MaxMerges == 2

\* Command::contains_key, were the shard ignored
contains_key_any_shard(cmd, shard_id, key) ==
    \E s \in DOMAIN cmd.shard_to_ops : key \in DOMAIN cmd.shard_to_ops[s]

\* Command::contains_key
contains_key(cmd, shard_id, key) ==
    IF shard_id \in DOMAIN cmd.shard_to_ops THEN key \in DOMAIN cmd.shard_to_ops[shard_id]
    ELSE FALSE

\* Command::conflicts
conflicts(cmd, other) ==
    \E shard_id \in DOMAIN cmd.shard_to_ops :
        \E key \in DOMAIN cmd.shard_to_ops[shard_id] : contains_key(other, shard_id, key)

\* Command::shard_to_keys
shard_to_keys(cmd) == cmd.shard_to_keys

\* Command::merge, of a command that was not cloned: the ops of other are
\* appended key by key; shard_to_keys is not touched
merge(cmd, other) ==
    [cmd EXCEPT !.shard_to_ops =
        [s \in DOMAIN cmd.shard_to_ops \cup DOMAIN other.shard_to_ops |->
            LET mine == IF s \in DOMAIN cmd.shard_to_ops THEN cmd.shard_to_ops[s] ELSE <<>>
                theirs == IF s \in DOMAIN other.shard_to_ops THEN other.shard_to_ops[s]
                          ELSE <<>>
            IN [k \in DOMAIN mine \cup DOMAIN theirs |->
                   (IF k \in DOMAIN mine THEN mine[k] ELSE <<>>)
                      \o (IF k \in DOMAIN theirs THEN theirs[k] ELSE <<>>)]]]

\* the key -> ops maps a command is built from, for each of its shards
ShardOps(shard_id) ==
    IF shard_id = DEFAULT_SHARD_ID
    THEN {<<>>, [k \in {"A"} |-> <<OpGet>>],
          [k \in Keys |-> IF k = "A" THEN <<OpPut(1)>> ELSE <<OpAdd(1)>>]}
    ELSE {<<>>, [k \in {"A"} |-> <<OpPut(1)>>], [k \in {"B"} |-> <<OpAdd(1)>>]}

\* the shard -> key -> ops maps Command::new is called with
ShardToOpsInputs ==
    {f \in UNION {[S -> UNION {ShardOps(s) : s \in Shards}] : S \in SUBSET Shards} :
        \A s \in DOMAIN f : f[s] \in ShardOps(s)}

\* the commands Command::new builds
CommandInputs == {CommandNew(f) : f \in ShardToOpsInputs}

InitCommand ==
    /\ command \in CommandInputs
    /\ merges = <<command>>
    /\ asked = <<>>
    /\ builder = <<>>
    /\ cmd_result = <<>>
    /\ workload = <<>>
    /\ calls = <<>>
    /\ NoRuntime
    /\ NoStorage
    /\ NoKeyDeps
    /\ NoQueueNoGraph

\* a call of Command::merge
Merge(other) ==
    /\ Len(merges) <= MaxMerges
    /\ command' = merge(command, other)
    /\ merges' = Append(merges, other)
    /\ UNCHANGED <<asked, builder, cmd_result, workload, calls, qvars, gvars, svars, kvars, evars>>

\* calls of Command::conflicts on the command and another one, both ways, and
\* on the command and itself
Conflicts(other) ==
    /\ asked' = <<[a |-> command, b |-> other, ab |-> conflicts(command, other),
                   ba |-> conflicts(other, command), aa |-> conflicts(command, command)]>>
    /\ UNCHANGED <<command, merges, builder, cmd_result, workload, calls,
                   qvars, gvars, svars, kvars, evars>>

NextCommand ==
    \/ \E other \in CommandInputs : Merge(other)
    \/ \E other \in CommandInputs : Conflicts(other)

SpecCommand == InitCommand /\ [][NextCommand]_vars

\* the (shard, key) pairs a command accesses
AllKeys(cmd) ==
    {<<s, k>> \in Shards \X Keys : s \in DOMAIN cmd.shard_to_ops /\ k \in DOMAIN cmd.shard_to_ops[s]}

\* C25: a.conflicts(b) is true exactly when a (shard, key) pair is accessed by
\* both; it is symmetric, and a command of at least one key conflicts with
\* itself
C25_ConflictsIffSharedKey ==
    asked # <<>> =>
        /\ asked[1].ab <=> (AllKeys(asked[1].a) \cap AllKeys(asked[1].b) # {})
        /\ asked[1].ab <=> asked[1].ba
        /\ AllKeys(asked[1].a) # {} => asked[1].aa

\* a command that merged another was asked about a different command: they
\* share a key of one shard, and conflict both ways
C25_Witness ==
    /\ asked # <<>>
    /\ Len(merges) > 1
    /\ asked[1].ab /\ asked[1].ba
    /\ asked[1].a.shard_to_ops # asked[1].b.shard_to_ops
    /\ Cardinality(AllKeys(asked[1].a) \cap AllKeys(asked[1].b)) = 1

\* the keys a sequence lists
Listed(seq) == {seq[i] : i \in 1..Len(seq)}

\* C26: shard_to_keys() of a command built by Command::new maps each shard
\* to the keys of that shard in shard_to_ops, each listed once, and has no
\* entry for a shard without keys
C26_ShardToKeysRoundTrip ==
    \A i \in 1..Len(merges) :
        LET cmd == merges[i] IN
        /\ DOMAIN shard_to_keys(cmd)
              = {s \in DOMAIN cmd.shard_to_ops : DOMAIN cmd.shard_to_ops[s] # {}}
        /\ \A s \in DOMAIN shard_to_keys(cmd) :
              /\ Listed(shard_to_keys(cmd)[s]) = DOMAIN cmd.shard_to_ops[s]
              /\ Len(shard_to_keys(cmd)[s]) = Cardinality(DOMAIN cmd.shard_to_ops[s])

\* the ops of a key of a shard in a command, none if it has none
OpsOf(cmd, s, k) ==
    IF s \in DOMAIN cmd.shard_to_ops /\ k \in DOMAIN cmd.shard_to_ops[s]
    THEN cmd.shard_to_ops[s][k] ELSE <<>>

\* the ops of a key in the commands merged from the i-th on, in merge order
RECURSIVE OpsFrom(_, _, _)
OpsFrom(i, s, k) ==
    IF i > Len(merges) THEN <<>> ELSE OpsOf(merges[i], s, k) \o OpsFrom(i + 1, s, k)

\* C27: after any sequence of merges, shard_to_keys mirrors the keys of
\* shard_to_ops, every shard and key of a merged command is present, and
\* the ops of each key are those of the command followed by those of each
\* merged command in merge order
C27_MergeKeepsKeysAndOrder ==
    /\ \A s \in Shards : \A k \in Keys :
          /\ <<s, k>> \in AllKeys(command)
                <=> \E i \in 1..Len(merges) : <<s, k>> \in AllKeys(merges[i])
          /\ OpsOf(command, s, k) = OpsFrom(1, s, k)
    /\ \A s \in Shards :
          (IF s \in DOMAIN shard_to_keys(command) THEN Listed(shard_to_keys(command)[s]) ELSE {})
              = {k \in Keys : <<s, k>> \in AllKeys(command)}

----------------------------------------------------------------------------
\* CommandResultBuilder and CommandResult (fantoch/src/command.rs)

\* the highest key_count a builder is made with
MaxKeyCount == 3

\* CommandResultBuilder::new
CommandResultBuilderNew(rifl, key_count) ==
    [rifl |-> rifl, key_count |-> key_count, results |-> <<>>]

\* CommandResultBuilder::add_partial: the builder left, and whether the
\* assertion that the key had no partial result failed
add_partial(b, key, partial_results) ==
    [b |-> [b EXCEPT !.results = [k \in DOMAIN b.results \cup {key} |->
                                     IF k = key THEN partial_results ELSE b.results[k]]],
     panic |-> key \in DOMAIN b.results]

\* CommandResultBuilder::ready, were one partial result enough
ready_with_any(b) == DOMAIN b.results # {}

\* CommandResultBuilder::ready
ready(b) == Cardinality(DOMAIN b.results) = b.key_count

\* From<CommandResultBuilder> for CommandResult: the result, or the failure
\* of the assertion that the builder is ready
CommandResultFrom(b) ==
    IF ready(b) THEN [res |-> Some([rifl |-> b.rifl, results |-> b.results]), panic |-> FALSE]
    ELSE [res |-> None, panic |-> TRUE]

\* the rifls of the builders
Rifls == {<<1, 1>>, <<1, 2>>}

\* the partial results of a key
Partials == {<<None>>, <<Some(1)>>, <<Some(1), None>>}

InitResult ==
    /\ builder \in {CommandResultBuilderNew(rifl, key_count) :
                       rifl \in Rifls, key_count \in 0..MaxKeyCount}
    /\ cmd_result = None
    /\ command = <<>>
    /\ merges = <<>>
    /\ asked = <<>>
    /\ workload = <<>>
    /\ calls = <<>>
    /\ NoRuntime
    /\ NoStorage
    /\ NoKeyDeps
    /\ NoQueueNoGraph

\* a call of CommandResultBuilder::add_partial
AddPartial(key, partial_results) ==
    /\ ~panicked
    /\ cmd_result = None
    /\ builder' = add_partial(builder, key, partial_results).b
    /\ panicked' = add_partial(builder, key, partial_results).panic
    /\ UNCHANGED <<cmd_result, command, merges, asked, workload, calls,
                   storage, overflow_checks, last, n_deps_pending, n_executed,
                   qvars, gvars, kvars, evars>>

\* the conversion of the builder into a CommandResult, which consumes it
IntoResult ==
    /\ ~panicked
    /\ cmd_result = None
    /\ cmd_result' = CommandResultFrom(builder).res
    /\ panicked' = CommandResultFrom(builder).panic
    /\ UNCHANGED <<builder, command, merges, asked, workload, calls,
                   storage, overflow_checks, last, n_deps_pending, n_executed,
                   qvars, gvars, kvars, evars>>

NextResult ==
    \/ \E key \in Keys, partial_results \in Partials : AddPartial(key, partial_results)
    \/ IntoResult

SpecResult == InitResult /\ [][NextResult]_vars

\* the keys that have a partial result in the builder
KeysWithPartial == {k \in Keys : k \in DOMAIN builder.results}

\* C28: ready() is true exactly when the number of keys with a partial result
\* is key_count; the conversion into a CommandResult succeeds from a ready
\* builder, with its rifl and results, and fails its assertion otherwise; a
\* second partial result for a key fails the assertion of add_partial
C28_ReadyBuilder ==
    /\ [](ready(builder) <=> Cardinality(KeysWithPartial) = builder.key_count)
    /\ [][/\ IntoResult =>
                IF Cardinality(KeysWithPartial) = builder.key_count
                THEN /\ ~panicked'
                     /\ cmd_result' = Some([rifl |-> builder.rifl, results |-> builder.results])
                ELSE panicked' /\ cmd_result' = None
          /\ cmd_result' # cmd_result => Cardinality(KeysWithPartial) = builder.key_count
          /\ \A key \in Keys, partial_results \in Partials :
                AddPartial(key, partial_results) => (panicked' <=> key \in KeysWithPartial)]_vars

\* a CommandResult was made from a builder that has the partial results of its
\* two keys
C28_Witness ==
    /\ cmd_result # None
    /\ builder.key_count = 2
    /\ cmd_result[1].results = builder.results
    /\ KeysWithPartial = Keys

----------------------------------------------------------------------------
\* Workload (fantoch/src/client/workload.rs)

\* the highest commands_per_client of a workload
MaxCommands == 2

\* the number of calls of next_cmd
MaxCalls == 4

\* util::key_hash, of the two keys
key_hash(key) == IF key = "A" THEN 0 ELSE 1

\* Workload::new, without its key generator and payload size
WorkloadNew(shard_count, keys_per_command, commands_per_client) ==
    [shard_count |-> shard_count, keys_per_command |-> keys_per_command,
     commands_per_client |-> commands_per_client, read_only_percentage |-> 0,
     command_count |-> 0]

\* Workload::set_read_only_percentage
set_read_only_percentage(w, read_only_percentage) ==
    [w EXCEPT !.read_only_percentage = read_only_percentage]

\* Workload::shard_id
shard_id_of(w, key) == key_hash(key) % w.shard_count

\* Workload::gen_cmd, keys being the unique keys generated and is_read_only
\* the outcome of the random draw: the target shard and the command
gen_cmd(w, keys, is_read_only) ==
    [target_shard |-> shard_id_of(w, keys[1]),
     cmd |-> CommandNew(
        [s \in {shard_id_of(w, keys[i]) : i \in 1..Len(keys)} |->
            [k \in {keys[i] : i \in {j \in 1..Len(keys) : shard_id_of(w, keys[j]) = s}} |->
                <<IF is_read_only THEN OpGet ELSE OpPut(1)>>]])]

\* Workload::next_cmd, were one more command generated
next_cmd_one_more(w, keys, is_read_only) ==
    IF w.command_count <= w.commands_per_client
    THEN [w |-> [w EXCEPT !.command_count = @ + 1],
          res |-> Some(gen_cmd(w, keys, is_read_only))]
    ELSE [w |-> w, res |-> None]

\* Workload::next_cmd
next_cmd(w, keys, is_read_only) ==
    IF w.command_count < w.commands_per_client
    THEN [w |-> [w EXCEPT !.command_count = @ + 1],
          res |-> Some(gen_cmd(w, keys, is_read_only))]
    ELSE [w |-> w, res |-> None]

\* Workload::issued_commands
issued_commands(w) == w.command_count

\* Workload::finished
finished(w) == w.command_count = w.commands_per_client

\* the sequences of unique keys gen_unique_keys can return
UniqueKeys(keys_per_command) ==
    {keys \in UNION {[1..n -> Keys] : n \in {keys_per_command}} :
        \A i, j \in 1..Len(keys) : keys[i] = keys[j] => i = j}

\* the outcomes of true_if_random_is_less_than
ReadOnlyDraws(read_only_percentage) ==
    {b \in BOOLEAN : (b => read_only_percentage > 0) /\ (~b => read_only_percentage < 100)}

InitWorkload ==
    /\ workload \in {set_read_only_percentage(WorkloadNew(sc, kpc, cpc), rop) :
                        sc \in 1..2, kpc \in 1..2, cpc \in 0..MaxCommands, rop \in {0, 50, 100}}
    /\ calls = <<>>
    /\ command = <<>>
    /\ merges = <<>>
    /\ asked = <<>>
    /\ builder = <<>>
    /\ cmd_result = <<>>
    /\ NoRuntime
    /\ NoStorage
    /\ NoKeyDeps
    /\ NoQueueNoGraph

\* a call of Workload::next_cmd
NextCmd(keys, is_read_only) ==
    /\ Len(calls) < MaxCalls
    /\ workload' = next_cmd(workload, keys, is_read_only).w
    /\ calls' = Append(calls, next_cmd(workload, keys, is_read_only).res)
    /\ UNCHANGED <<command, merges, asked, builder, cmd_result, qvars, gvars, svars, kvars, evars>>

NextWorkload ==
    \E keys \in UniqueKeys(workload.keys_per_command),
       is_read_only \in ReadOnlyDraws(workload.read_only_percentage) :
        NextCmd(keys, is_read_only)

SpecWorkload == InitWorkload /\ [][NextWorkload]_vars

\* C29: next_cmd returns a command for exactly its first commands_per_client
\* calls and None afterwards; issued_commands() increases by one with each
\* command, stays the same with each None and never exceeds
\* commands_per_client; finished() is true exactly when issued_commands() is
\* commands_per_client, and stays true
C29_WorkloadIssuesExactlyC ==
    /\ [](/\ \A i \in 1..Len(calls) : calls[i] # None <=> i <= workload.commands_per_client
          /\ issued_commands(workload) <= workload.commands_per_client
          /\ issued_commands(workload) = Cardinality({i \in 1..Len(calls) : calls[i] # None})
          /\ finished(workload) <=> issued_commands(workload) = workload.commands_per_client)
    /\ [][/\ finished(workload) => finished(workload')
          /\ Len(calls') > Len(calls) =>
                issued_commands(workload')
                    = issued_commands(workload) + (IF calls'[Len(calls')] # None THEN 1 ELSE 0)]_vars

\* a workload of two commands has issued both, then answered None twice
C29_Witness ==
    /\ workload.commands_per_client = MaxCommands
    /\ Len(calls) = MaxCommands + 2
    /\ calls[MaxCommands] # None
    /\ calls[MaxCommands + 1] = None /\ calls[Len(calls)] = None
    /\ finished(workload)

----------------------------------------------------------------------------
\* BasicExecutor (executor/basic.rs): commands are named by their rifl, and
\* the store is the sequence of the commands executed

\* number of commands a BasicExecutor executes in a run
MaxExecuted == 3

\* number of times a rifl is registered in a run
MaxRegistered == 2

\* BasicExecutor::new
BasicExecutorNew == [store |-> <<>>, pending |-> {}]

\* BasicExecutor::register: the executor left, and whether the assertion failed
register(b, rifl) ==
    [b |-> [b EXCEPT !.pending = @ \cup {rifl}], panic |-> rifl \in b.pending]

\* KVStore::execute_command: the command is executed, and its result names
\* its rifl and its place among the commands executed
execute_command(store, rifl) ==
    [store |-> Append(store, rifl), result |-> [rifl |-> rifl, at |-> Len(store) + 1]]

\* handle, `if pending.remove(&rifl)`, were every command taken as pending
was_pending_always(b, rifl) == TRUE

\* handle, `if pending.remove(&rifl)`: whether the rifl was pending
was_pending(b, rifl) == rifl \in b.pending

\* BasicExecutor::handle, the filter_map over the infos
RECURSIVE handle_from(_, _, _)
handle_from(b, infos, results) ==
    IF infos = <<>> THEN [b |-> b, results |-> results]
    ELSE LET rifl == Head(infos)
             r == execute_command(b.store, rifl)
         IN handle_from([store |-> r.store, pending |-> b.pending \ {rifl}], Tail(infos),
                        IF was_pending(b, rifl) THEN Append(results, r.result) ELSE results)

\* BasicExecutor::handle
handle(b, infos) == handle_from(b, infos, <<>>)

\* the infos of a call of handle: one or two commands
HandleInfos == {<<a>> : a \in Rifls} \cup {<<a, c>> : a \in Rifls, c \in Rifls}

InitBasic ==
    /\ basic = BasicExecutorNew
    /\ served = [registered |-> [r \in Rifls |-> 0], answered |-> [r \in Rifls |-> 0],
                 last |-> <<>>]
    /\ delivered = <<>>
    /\ key_clocks = <<>>
    /\ clocked = <<>>
    /\ NoClient
    /\ NoStorage
    /\ NoKeyDeps
    /\ NoQueueNoGraph

\* a call of BasicExecutor::register
Register(rifl) ==
    /\ ~panicked
    /\ served.registered[rifl] < MaxRegistered
    /\ \E r \in {register(basic, rifl)} :
          /\ basic' = r.b
          /\ panicked' = r.panic
          /\ served' = [served EXCEPT !.registered[rifl] = IF r.panic THEN @ ELSE @ + 1]
    /\ UNCHANGED <<storage, overflow_checks, last, n_deps_pending, n_executed,
                   delivered, key_clocks, clocked, qvars, gvars, kvars, cvars>>

\* a call of BasicExecutor::handle
Handle(infos) ==
    /\ ~panicked
    /\ Len(basic.store) + Len(infos) <= MaxExecuted
    /\ \E r \in {handle(basic, infos)} :
          /\ basic' = r.b
          /\ served' = [served EXCEPT
                          !.answered = [x \in Rifls |->
                                          @[x] + Cardinality({k \in 1..Len(r.results) :
                                                                r.results[k].rifl = x})],
                          !.last = <<[infos |-> infos, results |-> r.results,
                                      before |-> basic]>>]
    /\ UNCHANGED <<svars, delivered, key_clocks, clocked, qvars, gvars, kvars, cvars>>

NextBasic ==
    \/ \E rifl \in Rifls : Register(rifl)
    \/ \E infos \in HandleInfos : Handle(infos)

SpecBasic == InitBasic /\ [][NextBasic]_vars

\* the places, among the infos of the last call of handle, of the commands
\* whose rifl was pending before the call and is not the rifl of an earlier one
Answerable ==
    {i \in 1..Len(served.last[1].infos) :
        /\ served.last[1].infos[i] \in served.last[1].before.pending
        /\ \A j \in 1..(i - 1) : served.last[1].infos[j] # served.last[1].infos[i]}

\* C40: handle executes every command it is given, in order, and returns the
\* results of exactly those whose rifl was registered and not yet answered,
\* in order; a rifl is answered no more often than it was registered, and is
\* pending exactly while it was registered once more than answered; register
\* fails its assertion exactly for a rifl that is pending
C40_BasicExecutorAnswersPending ==
    /\ [](/\ \A r \in Rifls :
               /\ served.answered[r] <= served.registered[r]
               /\ ~panicked => (r \in basic.pending
                                   <=> served.registered[r] = served.answered[r] + 1)
          /\ served.last # <<>> =>
               LET call == served.last[1]
               IN /\ SubSeq(basic.store, 1, Len(call.before.store) + Len(call.infos))
                        = call.before.store \o call.infos
                  /\ Len(call.results) = Cardinality(Answerable)
                  /\ \A i \in Answerable :
                        \E k \in 1..Len(call.results) :
                            /\ call.results[k] = [rifl |-> call.infos[i],
                                                   at |-> Len(call.before.store) + i]
                            /\ k = Cardinality({j \in Answerable : j <= i}))
    /\ [][\A rifl \in Rifls :
             Register(rifl) => (panicked' <=> rifl \in basic.pending)]_vars

\* a call of handle was given twice a command whose rifl was pending, after
\* the rifl had been answered once before: it executed both and returned the
\* result of the first
C40_Witness ==
    /\ served.last # <<>>
    /\ Len(served.last[1].infos) = 2
    /\ served.last[1].infos[1] = served.last[1].infos[2]
    /\ Len(served.last[1].results) = 1
    /\ served.answered[served.last[1].infos[1]] = 2
    /\ Len(basic.store) = Len(served.last[1].before.store) + 2

====
